---- MODULE Spec2Model ----
(***************************************************************************)
(* Model of the my2sats command line client: key vault (store-key /        *)
(* getSecretKey), NIP-98 request authentication, image upload              *)
(* orchestration (processImages) and the post / update / delete commands.  *)
(*                                                                         *)
(* Text is modelled as a sequence of tokens.  A token is an indivisible    *)
(* run of characters ("!", "[", "http://", "x", ...); the regular          *)
(* expressions and String.prototype.replace of the source are evaluated    *)
(* token by token.                                                         *)
(***************************************************************************)
EXTENDS Integers, Sequences, FiniteSets, TLC

\* ------------------------------------------------------------------ bounds
\* greatest number of segments a generated content string is built from
MaxSegs == 3
\* greatest value of the wall clock (seconds)
MaxClock == 1

\* ------------------------------------------------------- program constants
\* DEFAULTS.maxImageSize, 5 * 1024 * 1024
DefaultMaxImageSize == 5242880
\* DEFAULTS.allowedImageTypes
DefaultAllowedImageTypes == {"image/jpeg", "image/png", "image/webp", "image/gif"}

\* the value JavaScript calls undefined, where a string is expected
Undefined == <<"<undefined>">>
\* the empty string
Empty == <<>>
\* JavaScript truthiness of a string-or-undefined value
Truthy(v) == v # Undefined /\ v # Empty

\* ---------------------------------------------------------- string helpers
\* \s of the regular expressions
WhiteSpace == {" ", "\n"}
\* ["'] of the HTML regular expression
Quotes == {"\"", "'"}

\* String.prototype.startsWith
StartsWith(s, p) == Len(p) <= Len(s) /\ SubSeq(s, 1, Len(p)) = p

\* String.prototype.indexOf, 1-based; 0 when pat does not occur in s
IndexOf(s, pat) ==
  LET hits == {i \in 1..(Len(s) - Len(pat) + 1) : SubSeq(s, i, i + Len(pat) - 1) = pat}
  IN IF hits = {} THEN 0 ELSE CHOOSE i \in hits : \A j \in hits : i <= j

\* String.prototype.replace with a string pattern: the first occurrence only
StrReplace(s, pat, rep) ==
  LET i == IndexOf(s, pat)
  IN IF i = 0 THEN s
     ELSE SubSeq(s, 1, i - 1) \o rep \o SubSeq(s, i + Len(pat), Len(s))

\* least index k >= from with s[k] \in stop, Len(s)+1 when there is none
FirstIn(s, from, stop) ==
  LET hits == {k \in from..Len(s) : s[k] \in stop}
  IN IF hits = {} THEN Len(s) + 1 ELSE CHOOSE k \in hits : \A j \in hits : k <= j

\* least index k >= from with s[k] \notin skip, Len(s)+1 when there is none
FirstNotIn(s, from, skip) ==
  LET hits == {k \in from..Len(s) : s[k] \notin skip}
  IN IF hits = {} THEN Len(s) + 1 ELSE CHOOSE k \in hits : \A j \in hits : k <= j

At(s, k) == IF k \in 1..Len(s) THEN s[k] ELSE "<eof>"

\* a failed match; a match gives its last index, capture group 1 and the
\* index where the group starts
NoMatch == [end |-> 0, pstart |-> 0, path |-> <<>>]

\* a test that takes only https:// for remote
isLocalPath_HttpsOnly(value) == ~StartsWith(value, <<"https://">>)

\* isLocalPath
isLocalPath(value) ==
  ~StartsWith(value, <<"http://">>) /\ ~StartsWith(value, <<"https://">>)

\* one attempt of /!\[[^\]]*\]\(([^)\s]+)(?:\s+"[^"]*")?\)/ anchored at i
MarkdownMatchAt(s, i) ==
  IF ~(At(s, i) = "!" /\ At(s, i + 1) = "[") THEN NoMatch
  ELSE
    LET rb == FirstIn(s, i + 2, {"]"})                      \* [^\]]* \]
    IN IF ~(rb <= Len(s) /\ At(s, rb + 1) = "(") THEN NoMatch
       ELSE
         LET p1 == rb + 2
             p2 == FirstIn(s, p1, {")"} \cup WhiteSpace)      \* ([^)\s]+)
             path == SubSeq(s, p1, p2 - 1)
         IN IF p2 = p1 THEN NoMatch
            ELSE IF At(s, p2) = ")" THEN [end |-> p2, pstart |-> p1, path |-> path]
            ELSE IF At(s, p2) \in WhiteSpace THEN
              LET q1 == FirstNotIn(s, p2, WhiteSpace)       \* \s+
              IN IF At(s, q1) # "\"" THEN NoMatch
                 ELSE LET q2 == FirstIn(s, q1 + 1, {"\""})  \* "[^"]*"
                      IN IF q2 <= Len(s) /\ At(s, q2 + 1) = ")"
                         THEN [end |-> q2 + 1, pstart |-> p1, path |-> path]
                         ELSE NoMatch
            ELSE NoMatch

\* the token that opens an image tag (the regular expression has the i flag)
ImgOpen == {"<img", "<IMG"}
SrcAttr == {"src=", "SRC="}

\* one attempt of /<img[^>]+src=["']([^"']+)["'][^>]*\/?>/gi anchored at i:
\* [^>]+ is greedy, so of the src= attributes before the first ">" the last
\* one that completes a match is taken
HtmlMatchAt(s, i) ==
  IF At(s, i) \notin ImgOpen THEN NoMatch
  ELSE
    LET gt == FirstIn(s, i + 1, {">"})     \* [^>]+ cannot pass this index
        Try(j) ==                           \* src= at index j
          LET p1 == j + 2
              p2 == FirstIn(s, p1, Quotes)  \* ([^"']+) then ["']
              e  == FirstIn(s, p2 + 1, {">"})
          IN IF At(s, j) \in SrcAttr /\ At(s, j + 1) \in Quotes
                /\ p2 > p1 /\ p2 <= Len(s) /\ e <= Len(s)
             THEN [end |-> e, pstart |-> p1, path |-> SubSeq(s, p1, p2 - 1)]
             ELSE NoMatch
        cands == {j \in (i + 2)..(gt - 1) : Try(j) # NoMatch}
    IN IF cands = {} THEN NoMatch
       ELSE Try(CHOOSE j \in cands : \A k \in cands : k <= j)

\* the exec loop of a global regular expression: leftmost matches from
\* index i on, never overlapping; keeps the references whose path is local
RECURSIVE ScanFrom(_, _, _)
ScanFrom(s, i, html) ==
  IF i > Len(s) THEN <<>>
  ELSE
    LET m == IF html THEN HtmlMatchAt(s, i) ELSE MarkdownMatchAt(s, i)
    IN IF m = NoMatch THEN ScanFrom(s, i + 1, html)
       ELSE (IF isLocalPath(m.path)
             THEN <<[original |-> SubSeq(s, i, m.end), path |-> m.path]>>
             ELSE <<>>)
            \o ScanFrom(s, m.end + 1, html)

\* variant: HTML img tags are collected before the markdown images
parseImageReferences_HtmlFirst(content) ==
  ScanFrom(content, 1, TRUE) \o ScanFrom(content, 1, FALSE)

\* parseImageReferences: markdown images first, then HTML img tags
parseImageReferences(content) ==
  ScanFrom(content, 1, FALSE) \o ScanFrom(content, 1, TRUE)

\* ------------------------------------------------------------ Map<string,string>
\* a Map is the sequence of its entries in insertion order
MapHas(m, k) == \E i \in 1..Len(m) : m[i].path = k
MapGet(m, k) ==
  IF MapHas(m, k) THEN m[CHOOSE i \in 1..Len(m) : m[i].path = k].url ELSE Undefined
MapSet(m, k, v) ==
  IF MapHas(m, k)
  THEN [i \in 1..Len(m) |-> IF m[i].path = k THEN [path |-> k, url |-> v] ELSE m[i]]
  ELSE Append(m, [path |-> k, url |-> v])

\* processImages, "Add content images": first mention of a path adds it
RECURSIVE AddContentImages(_, _)
AddContentImages(refs, m) ==
  IF refs = <<>> THEN m
  ELSE AddContentImages(Tail(refs),
         IF MapHas(m, Head(refs).path) THEN m ELSE MapSet(m, Head(refs).path, Empty))

\* variant: the featured image is added without the has() test
AddFeaturedImage_NoHasCheck(featured, m) ==
  IF Truthy(featured) /\ isLocalPath(featured)
  THEN Append(m, [path |-> featured, url |-> Empty])
  ELSE m

\* processImages, "Add featured image if it's a local path"
AddFeaturedImage(featured, m) ==
  IF Truthy(featured) /\ isLocalPath(featured) /\ ~MapHas(m, featured)
  THEN MapSet(m, featured, Empty)
  ELSE m

\* processImages, "Replace paths in content"
RECURSIVE ReplacePaths(_, _, _)
\* variant: the path is replaced whatever the Map holds for it
ReplacePaths_Unguarded(refs, m, processed) ==
  IF refs = <<>> THEN processed
  ELSE
    LET ref == Head(refs)
        uploadedUrl == MapGet(m, ref.path)
    IN ReplacePaths(Tail(refs), m,
         StrReplace(processed, ref.original,
                    StrReplace(ref.original, ref.path, uploadedUrl)))

ReplacePaths(refs, m, processed) ==
  IF refs = <<>> THEN processed
  ELSE
    LET ref == Head(refs)
        uploadedUrl == MapGet(m, ref.path)
    IN ReplacePaths(Tail(refs), m,
         IF Truthy(uploadedUrl)
         THEN StrReplace(processed, ref.original,
                         StrReplace(ref.original, ref.path, uploadedUrl))
         ELSE processed)

\* validateImageFile, path resolution
FullPath(filePath, base) ==
  IF StartsWith(filePath, <<"/">>) THEN filePath ELSE base \o <<"/">> \o filePath

\* variant: a file of exactly the maximum size is rejected
ValidateOutcome_AtLeast(st, maxImageSize, allowedImageTypes) ==
  IF ~st.exists THEN "not-found"
  ELSE IF st.size >= maxImageSize THEN "too-large"
  ELSE IF st.type \notin allowedImageTypes THEN "bad-type"
  ELSE "ok"

\* validateImageFile, the three checks on the file found at the full path;
\* st is what Bun.file reports: exists, size, type
ValidateOutcome(st, maxImageSize, allowedImageTypes) ==
  IF ~st.exists THEN "not-found"
  ELSE IF st.size > maxImageSize THEN "too-large"
  ELSE IF st.type \notin allowedImageTypes THEN "bad-type"
  ELSE "ok"

\* ---------------------------------------------------------------- key codec
\* A secret key is two tokens, each standing for 16 bytes; its hexadecimal
\* form is the same two runs of 32 digits in either letter case.
HexLowerRuns == {"0a", "1b"}
HexRuns == {"0a", "1b", "0A", "1B"}
\* the bytes a run of hexadecimal digits decodes to (hexToBytes)
HexValue == ("0a" :> "0a") @@ ("1b" :> "1b") @@ ("0A" :> "0a") @@ ("1B" :> "1b")
\* the bech32 data parts that decode, with the key each one carries
NsecData == ("vl02" :> <<"1b", "0a">>)

\* String.prototype.trim
RECURSIVE TrimStart(_)
TrimStart(s) == IF s # <<>> /\ Head(s) \in WhiteSpace THEN TrimStart(Tail(s)) ELSE s
RECURSIVE TrimEnd(_)
TrimEnd(s) ==
  IF s # <<>> /\ s[Len(s)] \in WhiteSpace THEN TrimEnd(SubSeq(s, 1, Len(s) - 1)) ELSE s
Trim(s) == TrimEnd(TrimStart(s))

\* parseSecretKey: the key, or the error thrown.  nip19.decode throws its
\* own Error for a string that is not valid bech32.
parseSecretKey(input) ==
  LET trimmed == Trim(input)
  IN IF StartsWith(trimmed, <<"nsec1">>) THEN
       IF Len(trimmed) = 2 /\ trimmed[2] \in DOMAIN NsecData
       THEN [ok |-> TRUE, key |-> NsecData[trimmed[2]], err |-> "none"]
       ELSE [ok |-> FALSE, key |-> Empty, err |-> "Error"]
     ELSE IF ~(Len(trimmed) = 2 /\ \A i \in 1..Len(trimmed) : trimmed[i] \in HexRuns)
       THEN [ok |-> FALSE, key |-> Empty, err |-> "InvalidSecretKeyError"]
     ELSE [ok |-> TRUE, key |-> [i \in 1..2 |-> HexValue[trimmed[i]]], err |-> "none"]

\* getPublicKey: the public key of a secret key
PublicRun == ("0a" :> "pub.0a") @@ ("1b" :> "pub.1b")

\* a derivation that hands the secret key back as the public key
getPublicKey_Identity(key) == key

getPublicKey(key) == [i \in 1..Len(key) |-> PublicRun[key[i]]]

\* ------------------------------------------------------------------ NIP-49
\* the ciphertext of 16 key bytes under a password
CipherRun == (<<"pw1">> :> (("0a" :> "p1.0a") @@ ("1b" :> "p1.1b")))
          @@ (<<"pw2">> :> (("0a" :> "p2.0a") @@ ("1b" :> "p2.1b")))
Passwords == DOMAIN CipherRun

\* nip49.encrypt(secretKey, password): "ncryptsec1" and the ciphertext
Encrypt(key, password) ==
  <<"ncryptsec1">> \o [i \in 1..Len(key) |-> CipherRun[password][key[i]]]

\* nip49.decrypt(ncryptsec, password): the key, or a throw when the text is
\* not a well-formed ncryptsec or the password does not authenticate it
Decrypt(ncryptsec, password) ==
  LET plain(c) == {r \in HexLowerRuns : CipherRun[password][r] = c}
      wellFormed == /\ password \in Passwords
                    /\ Len(ncryptsec) = 3
                    /\ ncryptsec[1] = "ncryptsec1"
                    /\ \A i \in 2..3 : plain(ncryptsec[i]) # {}
  IN IF wellFormed
     THEN [ok |-> TRUE, key |-> [i \in 1..2 |-> CHOOSE r \in plain(ncryptsec[i + 1]) : TRUE]]
     ELSE [ok |-> FALSE, key |-> Empty]

\* ------------------------------------------------------------------ inputs
\* the tokens paths are made of in the generated inputs
PathX == <<"x">>
PathY == <<"/", "y">>
PathF == <<"f">>
RemoteR == <<"https://", "r">>

Md(alt, path) == <<"!", "[">> \o alt \o <<"]", "(">> \o path \o <<")">>
MdTitled(alt, path) ==
  <<"!", "[">> \o alt \o <<"]", "(">> \o path \o <<" ", "\"", "t", "\"", ")">>
Img(q, path) == <<"<img", " ", "src=", q>> \o path \o <<q, ">">>

\* the pieces generated content is concatenated from
Segments ==
  { Md(<<"a">>, PathX),                                     \* ![a](x)
    Md(PathX, PathX),                                        \* ![x](x)
    Md(<<"b">>, PathY),                                      \* ![b](/y)
    Md(<<"r">>, RemoteR),                                    \* remote image
    Img("\"", PathX),                                        \* <img src="x">
    <<" and ">> }                                            \* plain text

RECURSIVE ContentsUpTo(_)
ContentsUpTo(n) ==
  IF n = 0 THEN {<<>>}
  ELSE LET prev == ContentsUpTo(n - 1)
       IN prev \cup {c \o seg : c \in prev, seg \in Segments}

Contents == ContentsUpTo(MaxSegs)
\* a URL of another scheme than http and https
OtherSchemeR == <<"ftp://", "r">>
FeaturedImages == {Undefined, PathX, PathF, RemoteR}
BasePath == <<"posts">>
ApiUrl == <<"http://", "localhost:3000">>

\* what Bun.file can report about the file at a path
FileStates ==
  { [exists |-> FALSE, size |-> 0, type |-> "application/octet-stream"],
    [exists |-> TRUE, size |-> DefaultMaxImageSize, type |-> "image/jpeg"],
    [exists |-> TRUE, size |-> DefaultMaxImageSize + 1, type |-> "image/png"],
    [exists |-> TRUE, size |-> 10, type |-> "text/plain"] }

\* the location the service gives an uploaded file: https://cdn/<file name>
ServerUrl(fullPath) == <<"https://", "cdn", "/", fullPath[Len(fullPath)]>>

\* what fetch can come back with for an upload
UploadOutcomes(fullPath) ==
  { [kind |-> "reject", status |-> 0, json |-> FALSE, url |-> Undefined, text |-> Empty],
    [kind |-> "response", status |-> 500, json |-> FALSE, url |-> Undefined,
     text |-> <<"no space">>],
    [kind |-> "response", status |-> 200, json |-> FALSE, url |-> Undefined,
     text |-> <<"<html>">>],
    [kind |-> "response", status |-> 200, json |-> TRUE, url |-> Undefined,
     text |-> <<"{}">>],
    [kind |-> "response", status |-> 201, json |-> TRUE, url |-> ServerUrl(fullPath),
     text |-> <<"{url}">>] }

\* response.ok
ResponseOk(status) == status >= 200 /\ status <= 299

\* ------------------------------------------------------------------- state
VARIABLES
  cmd,            \* the operation that is running
  pc,             \* its position
  err,            \* the error it threw, "none" while it has not
  content,        \* processImages: argument content
  featuredImage,  \* processImages: argument featuredImage
  basePath,       \* processImages: argument basePath
  imageRefs,      \* processImages: parseImageReferences(content)
  pathsToUpload,  \* processImages: Map path -> uploaded URL
  idx,            \* processImages: position of the upload loop in the Map
  file,           \* processImages: full path of the file validateImageFile returned
  result,         \* processImages: the value returned
  secretKey,      \* the key the sign function is bound to
  now,            \* wall clock, seconds
  token,          \* the Authorization value getToken returned
  requests,       \* every request handed to fetch, in order
  inflight,       \* indexes of the requests whose response has not arrived
  signed,         \* every event handed to the sign function, in order
  responses,      \* what fetch came back with, in order
  statLog,        \* every validateImageFile call: path, full path, file state
  keyfile,        \* the file at keyfilePath: exists, text
  io,             \* the file and prompt operations of the key vault, in order
  password,       \* the answer to the password prompt
  sealed,         \* what store-key wrote last: the key and the password
  args,           \* the arguments and options of the command
  payload,        \* the payload the command assembles
  errFields,      \* the fields a ValidationError names
  apiError,       \* the status and message an ApiError carries
  console,        \* the lines written to the console, in order
  env,            \* process.env: API_URL, KEYFILE_PATH
  configFile,     \* the file at the config path: exists, the document it holds
  overwrite,      \* createDefaultConfig: argument overwrite
  createdPath,    \* createDefaultConfig: the value returned
  config,         \* the Config instance
  markdown,       \* parseFrontmatter: argument markdown
  parseResult     \* parseFrontmatter: the value returned

imgVars == <<content, featuredImage, basePath, imageRefs, pathsToUpload, idx, file, result, statLog>>
netVars == <<now, token, requests, inflight, signed, responses, apiError>>
keyVars == <<keyfile, io, password, sealed>>
cmdVars == <<args, payload, errFields>>
confVars == <<env, configFile, overwrite, createdPath, config>>
fmVars == <<markdown, parseResult>>
vars == <<cmd, pc, err, imgVars, secretKey, netVars, keyVars, cmdVars, console, confVars, fmVars>>

NoResult == [returned |-> FALSE, content |-> Empty, featuredImageUrl |-> Undefined]
NoToken == [scheme |-> "none", u |-> Empty, method |-> "none", created_at |-> 0,
            payload |-> "none", pubkey |-> Empty, signNo |-> 0]
NoKey == Empty
NoFile == [exists |-> FALSE, text |-> Empty]
NotSealed == [written |-> FALSE, key |-> NoKey, pw |-> Undefined]
NoForm == Empty
NoApiError == [status |-> 0, message |-> Empty]

\* ------------------------------------------------------------ NIP-98 token
\* a client that keeps the token of the previous request and sends it again
\* when the next request has the same URL and method
GetToken_Cached(url, method, nextPc) ==
  /\ IF token.u = url /\ token.method = method
     THEN UNCHANGED <<now, token, signed>>
     ELSE \E t \in {now, IF now < MaxClock THEN now + 1 ELSE now} :
            /\ now' = t
            /\ token' = [scheme |-> "Nostr ", u |-> url, method |-> method,
                         created_at |-> t, payload |-> "none",
                         pubkey |-> getPublicKey(secretKey), signNo |-> Len(signed) + 1]
            /\ signed' = Append(signed, [u |-> url, method |-> method, created_at |-> t,
                                         payload |-> "none", key |-> secretKey])
  /\ pc' = nextPc
  /\ UNCHANGED <<requests, inflight, responses, apiError>>

\* getToken(url, method, sign, true): builds the kind 27235 event
\* {tags: [u, method], created_at: now, content: ""}, has it signed and
\* returns "Nostr " + base64(event).  No payload argument is passed, so the
\* event has no payload tag.  signNo identifies the invocation of sign.
GetToken(url, method, nextPc) ==
  /\ \E t \in {now, IF now < MaxClock THEN now + 1 ELSE now} :
       /\ now' = t
       /\ token' = [scheme |-> "Nostr ", u |-> url, method |-> method,
                    created_at |-> t, payload |-> "none",
                    pubkey |-> getPublicKey(secretKey), signNo |-> Len(signed) + 1]
       /\ signed' = Append(signed, [u |-> url, method |-> method, created_at |-> t,
                                    payload |-> "none", key |-> secretKey])
  /\ pc' = nextPc
  /\ UNCHANGED <<requests, inflight, responses, apiError>>

\* fetch(url, {method, headers: {Authorization: token}, body})
Fetch(url, method, body, nextPc) ==
  /\ requests' = Append(requests, [method |-> method, url |-> url,
                                   auth |-> token, body |-> body])
  /\ inflight' = inflight \cup {Len(requests) + 1}
  /\ pc' = nextPc
  /\ UNCHANGED <<now, token, signed, responses, apiError>>

\* fetch settles for the request sent last
Received(out) ==
  /\ inflight' = inflight \ {Len(requests)}
  /\ responses' = Append(responses, out)
  /\ UNCHANGED <<now, token, requests, signed>>

\* an error is thrown out of the running operation
Throw(kind) == err' = kind /\ pc' = "failed"

\* new ApiError(status, message)
ApiError(status, message) ==
  [status |-> status, message |-> <<"API request failed: ">> \o message]

\* a payload with every field absent (JSON.stringify leaves undefined out)
EmptyPayload == [slug |-> Undefined, title |-> Undefined, content |-> Undefined,
                 author |-> Undefined, excerpt |-> Undefined,
                 featured_image |-> Undefined, tags |-> Undefined]
FormBody(fullPath) == [kind |-> "form", file |-> fullPath, payload |-> EmptyPayload]
JsonBody(data) == [kind |-> "json", file |-> Empty, payload |-> data]
NoBody == [kind |-> "none", file |-> Empty, payload |-> EmptyPayload]

\* the front-matter of a file without front-matter
NoFrontmatter == [slug |-> Undefined, title |-> Undefined, author |-> Undefined,
                  excerpt |-> Undefined, featured_image |-> Undefined, tags |-> Undefined]
\* the options of a command line that gives none
NoOptions == [newSlug |-> Undefined, title |-> Undefined, content |-> Undefined,
              excerpt |-> Undefined, featuredImage |-> Undefined, author |-> Undefined,
              tags |-> Undefined]
NoArgs == [file |-> Undefined, fileExists |-> FALSE, frontmatter |-> NoFrontmatter,
           body |-> Empty, slug |-> Undefined, opts |-> NoOptions, force |-> FALSE,
           nsec |-> Undefined]

UploadUrl(apiUrl) == apiUrl \o <<"/api/uploads">>

\* the default path of the keyfile
KeyfilePath == <<"~/.my2sats/", "nostr.key">>

\* a small number as a template literal prints it
Decimal(n) ==
  IF n < 10 THEN <<"0", "1", "2", "3", "4", "5", "6", "7", "8", "9">>[n + 1] ELSE "10+"

\* ------------------------------------------------------------ configuration
\* JSON values, as JSON.parse gives them and typeof tells them apart
\* (t the type, s the text of a string, n the value of a number, a the items of an array)
JStr(s) == [t |-> "string", s |-> s, n |-> 0, a |-> <<>>]
JNum(n) == [t |-> "number", s |-> <<>>, n |-> n, a |-> <<>>]
JArr(a) == [t |-> "array", s |-> <<>>, n |-> 0, a |-> a]
JNull == [t |-> "null", s |-> <<>>, n |-> 0, a |-> <<>>]
\* a JSON object with the four properties of a ConfigFile
JObj(o) == [t |-> "object", s |-> <<>>, n |-> 0, a |-> <<>>, o |-> o]
\* a text that is not JSON
JInvalid == [t |-> "invalid", s |-> <<>>, n |-> 0, a |-> <<>>]
\* a property that is not there
JAbsent == [t |-> "undefined", s |-> <<>>, n |-> 0, a |-> <<>>]

\* DEFAULTS
DEFAULTS ==
  [apiUrl |-> ApiUrl,
   keyfilePath |-> KeyfilePath,
   maxImageSize |-> DefaultMaxImageSize,
   allowedImageTypes |-> <<<<"image/jpeg">>, <<"image/png">>, <<"image/webp">>, <<"image/gif">>>>]

\* no variable of the environment is set
NoEnv == [API_URL |-> Undefined, KEYFILE_PATH |-> Undefined]
\* no file at the config path
NoConfigFile == [exists |-> FALSE, doc |-> JNull]
\* Config.instance is null
NoConfig == [apiUrl |-> Undefined, keyfilePath |-> Undefined, maxImageSize |-> 0,
             allowedImageTypes |-> <<>>]
\* parseFrontmatter has not returned
NoParse == [returned |-> FALSE, frontmatter |-> {}, content |-> Empty]

\* the configuration of a run without environment variables and config file
ConfigLoaded ==
  /\ env = NoEnv /\ configFile = NoConfigFile /\ overwrite = FALSE
  /\ createdPath = Undefined /\ config = DEFAULTS
\* parseFrontmatter is not running
NothingParsed == markdown = Empty /\ parseResult = NoParse

\* where control goes when processImages returns
AfterProcessImages == IF cmd = "processImages" THEN "done" ELSE "processed"

\* ------------------------------------------------------------ processImages
\* lines 132-157: scan, build the Map, return at once when it is empty
processImages_collect ==
  /\ pc = "processImages"
  /\ LET refs == parseImageReferences(content)
         m == AddFeaturedImage(featuredImage, AddContentImages(refs, <<>>))
     IN /\ imageRefs' = refs
        /\ pathsToUpload' = m
        /\ IF Len(m) = 0
           THEN /\ result' = [returned |-> TRUE, content |-> content,
                              featuredImageUrl |-> featuredImage]
                /\ pc' = AfterProcessImages
                /\ idx' = idx
           ELSE /\ result' = result
                /\ pc' = "validateImageFile"
                /\ idx' = 1
  /\ UNCHANGED <<cmd, err, content, featuredImage, basePath, file, statLog,
                 secretKey, netVars, keyVars, cmdVars>>
  /\ UNCHANGED <<confVars, fmVars>>
  /\ console' = IF pathsToUpload' # <<>>
                THEN Append(console, <<"Found ", Decimal(Len(pathsToUpload')),
                                       " image(s) to upload...">>)
                ELSE console

\* variant: every path is validated before the first upload
validateImageFile_AllFirst ==
  /\ pc = "validateImageFile"
  /\ LET n == IF Len(statLog) < Len(pathsToUpload) THEN Len(statLog) + 1 ELSE idx
         localPath == pathsToUpload[n].path
         fullPath == FullPath(localPath, basePath)
     IN \E st \in FileStates :
          /\ statLog' = Append(statLog, [path |-> localPath, fullPath |-> fullPath, st |-> st])
          /\ IF ValidateOutcome(st, DefaultMaxImageSize, DefaultAllowedImageTypes) = "ok"
             THEN /\ file' = FullPath(pathsToUpload[idx].path, basePath)
                  /\ pc' = IF Len(statLog) + 1 < Len(pathsToUpload)
                           THEN "validateImageFile" ELSE "uploadImage_getToken"
                  /\ err' = err
             ELSE /\ file' = file
                  /\ Throw("ImageValidationError")
  /\ UNCHANGED <<cmd, content, featuredImage, basePath, imageRefs, pathsToUpload,
                 idx, result, secretKey, netVars, keyVars, cmdVars>>
  /\ UNCHANGED <<confVars, fmVars>>
  /\ console' = IF pc' # "failed"
                THEN Append(console, <<"  Uploading: ">> \o file') ELSE console

\* validateImageFile(localPath, basePath) for the current Map entry
validateImageFile ==
  /\ pc = "validateImageFile"
  /\ LET localPath == pathsToUpload[idx].path
         fullPath == FullPath(localPath, basePath)
     IN \E st \in FileStates :
          /\ statLog' = Append(statLog, [path |-> localPath, fullPath |-> fullPath, st |-> st])
          /\ IF ValidateOutcome(st, DefaultMaxImageSize, DefaultAllowedImageTypes) = "ok"
             THEN /\ file' = fullPath
                  /\ pc' = "uploadImage_getToken"
                  /\ err' = err
             ELSE /\ file' = file
                  /\ Throw("ImageValidationError")
  /\ UNCHANGED <<cmd, content, featuredImage, basePath, imageRefs, pathsToUpload,
                 idx, result, secretKey, netVars, keyVars, cmdVars>>
  /\ UNCHANGED <<confVars, fmVars>>
  /\ console' = IF pc' # "failed"
                THEN Append(console, <<"  Uploading: ">> \o file') ELSE console

\* uploadImage, line 144-145
uploadImage_getToken ==
  /\ pc = "uploadImage_getToken"
  /\ GetToken(UploadUrl(ApiUrl), "POST", "uploadImage_fetch")
  /\ UNCHANGED <<cmd, err, imgVars, secretKey, keyVars, cmdVars>>
  /\ UNCHANGED <<console, confVars, fmVars>>

\* uploadImage, lines 147-156
uploadImage_fetch ==
  /\ pc = "uploadImage_fetch"
  /\ Fetch(UploadUrl(ApiUrl), "POST", FormBody(file), "uploadImage_response")
  /\ UNCHANGED <<cmd, err, imgVars, secretKey, keyVars, cmdVars>>
  /\ UNCHANGED <<console, confVars, fmVars>>

\* variant: a failed upload is skipped and the loop goes on
uploadImage_response_Tolerant ==
  /\ pc = "uploadImage_response"
  /\ \E out \in UploadOutcomes(file) :
       /\ Received(out)
       /\ pathsToUpload' = MapSet(pathsToUpload, pathsToUpload[idx].path, out.url)
       /\ idx' = idx + 1
       /\ pc' = IF idx + 1 > Len(pathsToUpload) THEN "replacePaths" ELSE "validateImageFile"
       /\ err' = err
       /\ apiError' = apiError
  /\ UNCHANGED <<cmd, content, featuredImage, basePath, imageRefs, file, result,
                 statLog, secretKey, keyVars, cmdVars>>
  /\ UNCHANGED <<console, confVars, fmVars>>

\* uploadImage, lines 158-163, and processImages, lines 165-167
uploadImage_response ==
  /\ pc = "uploadImage_response"
  /\ \E out \in UploadOutcomes(file) :
       /\ Received(out)
       /\ IF out.kind = "reject" THEN
            /\ Throw("TypeError")
            /\ UNCHANGED <<pathsToUpload, idx, apiError>>
          ELSE IF ~ResponseOk(out.status) THEN
            /\ Throw("ApiError")
            /\ apiError' = ApiError(out.status, <<"Image upload failed: ">> \o out.text)
            /\ UNCHANGED <<pathsToUpload, idx>>
          ELSE IF ~out.json THEN
            /\ Throw("SyntaxError")
            /\ UNCHANGED <<pathsToUpload, idx, apiError>>
          ELSE
            /\ apiError' = apiError
            /\ pathsToUpload' = MapSet(pathsToUpload, pathsToUpload[idx].path, out.url)
            /\ idx' = idx + 1
            /\ pc' = IF idx + 1 > Len(pathsToUpload) THEN "replacePaths" ELSE "validateImageFile"
            /\ err' = err
  /\ UNCHANGED <<cmd, content, featuredImage, basePath, imageRefs, file, result,
                 statLog, secretKey, keyVars, cmdVars>>
  /\ UNCHANGED <<confVars, fmVars>>
  /\ console' = IF pc' # "failed"
                THEN Append(console, <<"  -> ">>
                                     \o MapGet(pathsToUpload', pathsToUpload[idx].path))
                ELSE console

\* variant: the featured image is returned as it was given
processImages_replace_FeaturedAsGiven ==
  /\ pc = "replacePaths"
  /\ result' = [returned |-> TRUE,
                content |-> ReplacePaths(imageRefs, pathsToUpload, content),
                featuredImageUrl |-> featuredImage]
  /\ pc' = AfterProcessImages
  /\ UNCHANGED <<cmd, err, content, featuredImage, basePath, imageRefs,
                 pathsToUpload, idx, file, statLog, secretKey, netVars, keyVars, cmdVars>>
  /\ UNCHANGED <<console, confVars, fmVars>>

\* processImages, lines 169-183
processImages_replace ==
  /\ pc = "replacePaths"
  /\ result' = [returned |-> TRUE,
                content |-> ReplacePaths(imageRefs, pathsToUpload, content),
                featuredImageUrl |->
                  IF Truthy(featuredImage) /\ isLocalPath(featuredImage)
                  THEN MapGet(pathsToUpload, featuredImage)
                  ELSE featuredImage]
  /\ pc' = AfterProcessImages
  /\ UNCHANGED <<cmd, err, content, featuredImage, basePath, imageRefs,
                 pathsToUpload, idx, file, statLog, secretKey, netVars, keyVars, cmdVars>>
  /\ UNCHANGED <<console, confVars, fmVars>>

\* ------------------------------------------- processImages called on its own
InitImages ==
  /\ cmd = "processImages"
  /\ pc = "processImages"
  /\ err = "none"
  /\ content \in Contents
  /\ featuredImage \in FeaturedImages
  /\ basePath = BasePath
  /\ imageRefs = <<>>
  /\ pathsToUpload = <<>>
  /\ idx = 0
  /\ file = Empty
  /\ result = NoResult
  /\ statLog = <<>>
  /\ secretKey = <<"0a", "1b">>
  /\ now = 0
  /\ token = NoToken
  /\ requests = <<>>
  /\ inflight = {}
  /\ signed = <<>>
  /\ responses = <<>>
  /\ keyfile = NoFile
  /\ io = <<>>
  /\ password = Undefined
  /\ sealed = NotSealed
  /\ args = NoArgs
  /\ payload = EmptyPayload
  /\ errFields = <<>>
  /\ apiError = NoApiError
  /\ console = <<>>
  /\ ConfigLoaded /\ NothingParsed

NextImages ==
  \/ processImages_collect
  \/ validateImageFile
  \/ uploadImage_getToken
  \/ uploadImage_fetch
  \/ uploadImage_response
  \/ processImages_replace

SpecImages == InitImages /\ [][NextImages]_vars

\* ======================================================================
\* Properties of processImages
\* ======================================================================

\* the local paths in discovery order: markdown references in document
\* order, then HTML img references in document order, then the featured
\* image when it is local; the first mention of a path counts
RECURSIVE FirstMentions(_)
FirstMentions(paths) ==
  IF paths = <<>> THEN <<>>
  ELSE LET before == FirstMentions(SubSeq(paths, 1, Len(paths) - 1))
           last == paths[Len(paths)]
       IN IF \E i \in 1..Len(before) : before[i] = last THEN before
          ELSE Append(before, last)

DiscoveryOrder ==
  LET md == ScanFrom(content, 1, FALSE)
      html == ScanFrom(content, 1, TRUE)
      feat == IF featuredImage # Undefined /\ isLocalPath(featuredImage)
              THEN <<featuredImage>> ELSE <<>>
  IN FirstMentions([i \in 1..Len(md) |-> md[i].path]
                   \o [i \in 1..Len(html) |-> html[i].path] \o feat)

\* the file a local path names
Resolved(path) == IF path[1] = "/" THEN path ELSE basePath \o <<"/">> \o path

\* the indexes of the upload requests sent, and those sent for a path
UploadRequests == {i \in 1..Len(requests) : requests[i].body.kind = "form"}
UploadsOf(path) == {i \in 1..Len(requests) :
                      requests[i].body.kind = "form" /\ requests[i].body.file = Resolved(path)}

\* the file fails validation: missing, larger than the maximum, or of a type
\* outside the allow-list
Invalid(st) ==
  \/ ~st.exists
  \/ st.size > DefaultMaxImageSize
  \/ st.type \notin DefaultAllowedImageTypes

\* the upload came back as a failure
FailedUpload(out) ==
  out.kind = "reject" \/ out.status < 200 \/ out.status > 299 \/ ~out.json

\* C1: every distinct local path is uploaded at most once on any run and
\* exactly once on a successful run, however often the content mentions it
\* and whether or not it is also the featured image; nothing else is uploaded.
C1_UploadedOncePerPath ==
  LET order == IF requests = <<>> /\ ~result.returned THEN <<>> ELSE DiscoveryOrder
  IN /\ \A i \in 1..Len(order) :
          /\ Cardinality(UploadsOf(order[i])) <= 1
          /\ result.returned => Cardinality(UploadsOf(order[i])) = 1
     /\ \A r \in UploadRequests :
          \E i \in 1..Len(order) : r \in UploadsOf(order[i])

\* a successful run whose content mentions one path three times, the path
\* being the featured image too: one upload
C1_Witness ==
  /\ cmd = "processImages" /\ result.returned
  /\ Len(imageRefs) = 3
  /\ \A i \in 1..3 : imageRefs[i].path = PathX
  /\ featuredImage = PathX
  /\ Cardinality(UploadRequests) = 1

\* the content in which every local reference has its path, where it stands,
\* replaced by the URL the upload of that path returned
RECURSIVE SpansFrom(_, _, _)
SpansFrom(s, i, html) ==
  IF i > Len(s) THEN {}
  ELSE LET m == IF html THEN HtmlMatchAt(s, i) ELSE MarkdownMatchAt(s, i)
       IN IF m = NoMatch THEN SpansFrom(s, i + 1, html)
          ELSE (IF isLocalPath(m.path) THEN {[from |-> m.pstart, path |-> m.path]} ELSE {})
               \cup SpansFrom(s, m.end + 1, html)

PathSpans(s) == SpansFrom(s, 1, FALSE) \cup SpansFrom(s, 1, TRUE)

RECURSIVE Substituted(_, _)
Substituted(s, spans) ==
  IF spans = {} THEN s
  ELSE LET sp == CHOOSE x \in spans : \A y \in spans : y.from <= x.from
       IN Substituted(SubSeq(s, 1, sp.from - 1) \o ServerUrl(Resolved(sp.path))
                        \o SubSeq(s, sp.from + Len(sp.path), Len(s)),
                      spans \ {sp})

\* every upload returned a location
AllUrlsReturned ==
  \A i \in 1..Len(responses) : ~FailedUpload(responses[i]) => responses[i].url # Undefined

\* C2: when processImages succeeds, every local reference of the content has
\* its path replaced by the URL its upload returned and the rest of the text
\* is unchanged.
C2_EveryReferenceRewritten ==
  (cmd = "processImages" /\ result.returned /\ AllUrlsReturned)
    => result.content = Substituted(content, PathSpans(content))

\* C3: when the validation or the upload of a path fails, processImages
\* throws, returns nothing, and the failing path is the last one validated
\* or uploaded.
C3_FailsAsAWhole ==
  /\ \A i \in 1..Len(statLog) :
       Invalid(statLog[i].st) =>
         /\ pc = "failed" /\ err # "none" /\ ~result.returned
         /\ i = Len(statLog)
         /\ Cardinality(UploadRequests) = i - 1
  /\ \A i \in 1..Len(responses) :
       FailedUpload(responses[i]) =>
         /\ pc = "failed" /\ err # "none" /\ ~result.returned
         /\ i = Len(responses)
         /\ Len(statLog) = i /\ Cardinality(UploadRequests) = i
  /\ err # "none" => ~result.returned /\ result.content = Empty

\* the second of three paths fails validation: one upload was made, the
\* third path was never looked at
C3_Witness ==
  /\ cmd = "processImages" /\ pc = "failed" /\ err = "ImageValidationError"
  /\ Len(pathsToUpload) = 3 /\ Len(statLog) = 2
  /\ Cardinality(UploadRequests) = 1

\* C4: uploads are serialized in discovery order: at most one request is in
\* flight, the requests sent are for the first paths of the discovery order,
\* and a path is validated, signed for or sent only when no response is
\* outstanding.
C4_SerializedInDiscoveryOrder ==
  /\ Cardinality(inflight) <= 1
  /\ LET order == IF requests = <<>> THEN <<>> ELSE DiscoveryOrder
     IN /\ Cardinality(UploadRequests) <= Len(order)
        /\ \A i \in UploadRequests :
             requests[i].body.file = Resolved(order[Cardinality({j \in UploadRequests : j <= i})])
  /\ pc \in {"validateImageFile", "uploadImage_getToken", "uploadImage_fetch"}
       => inflight = {} /\ Len(responses) = Len(requests)

\* three uploads in flight one after the other: an HTML reference, found
\* after the markdown one that follows it in the text, and the featured image
C4_Witness ==
  /\ cmd = "processImages" /\ pc = "uploadImage_response"
  /\ Len(requests) = 3 /\ inflight = {3}
  /\ content = Img("\"", PathX) \o Md(<<"b">>, PathY)
  /\ requests[1].body.file = PathY
  /\ requests[3].body.file = BasePath \o <<"/">> \o PathF

\* C5: a path is validated before any network call for it; the file looked
\* at is the path itself when it starts with "/" and basePath/path
\* otherwise; ImageValidationError is raised, with no sign call and no
\* request for the path, exactly when the file is missing, larger than the
\* maximum or of a type outside the allow-list.
C5_ValidatedBeforeNetwork ==
  LET upSigned == {i \in 1..Len(signed) : signed[i].u = UploadUrl(ApiUrl)}
  IN
  /\ \A i \in 1..Len(statLog) :
       /\ statLog[i].fullPath = Resolved(statLog[i].path)
       /\ Invalid(statLog[i].st) <=> (i = Len(statLog) /\ err = "ImageValidationError")
       /\ Invalid(statLog[i].st) =>
            /\ UploadsOf(statLog[i].path) = {}
            /\ Cardinality(upSigned) = i - 1
  /\ Cardinality(upSigned) <= Len(statLog)
  /\ Cardinality(UploadRequests) <= Cardinality(upSigned)
  /\ \A r \in UploadRequests :
       LET k == Cardinality({j \in UploadRequests : j <= r})
       IN /\ k <= Len(statLog)
          /\ statLog[k].fullPath = requests[r].body.file
          /\ ~Invalid(statLog[k].st)

\* a file of exactly the maximum size at an absolute path was accepted and
\* sent, the next file, resolved against basePath, is too large
C5_Witness ==
  /\ cmd = "processImages" /\ err = "ImageValidationError"
  /\ Len(statLog) = 2
  /\ statLog[1].path = PathY /\ statLog[1].fullPath = PathY
  /\ statLog[1].st.size = DefaultMaxImageSize
  /\ statLog[2].path = PathX /\ statLog[2].st.size > DefaultMaxImageSize
  /\ Cardinality(UploadRequests) = 1

\* ======================================================================
\* Key vault: getSecretKey and the store-key command
\* ======================================================================

\* the texts a keyfile can hold before store-key has run
InitialKeyfiles ==
  { NoFile,
    [exists |-> TRUE, text |-> <<"nsec1", "vl02">>],               \* a bare key
    [exists |-> TRUE, text |-> <<" ", "ncryptsec1", "p1.0a", "p1.1b">>],
    [exists |-> TRUE, text |-> <<"ncryptsec1", "p2.1b", "p2.1b", "\n">>],
    [exists |-> TRUE, text |-> <<"ncryptsec1", "p1.0a">>] }        \* truncated

\* what can be typed or passed as the secret key
KeyInputs ==
  { Undefined, Empty,
    <<"0a", "1b">>, <<" ", "0A", "1B", "\n">>, <<"1b", "1b">>,
    <<"0a">>, <<"0a", "1b", "0a">>, <<"0a", "zz">>,
    <<"nsec1", "vl02">>, <<"nsec1", "invalid">> }

\* the answers a password prompt can give: a password, nothing typed, or
\* undefined when the prompt is cancelled
PasswordAnswers == Passwords \cup {Empty, Undefined}

\* the state of a run that has not started
Idle ==
  /\ cmd = "none" /\ pc = "idle" /\ err = "none"
  /\ content = Empty /\ featuredImage = Undefined /\ basePath = Empty
  /\ imageRefs = <<>> /\ pathsToUpload = <<>> /\ idx = 0 /\ file = Empty
  /\ result = NoResult /\ statLog = <<>>
  /\ secretKey = NoKey
  /\ now = 0 /\ token = NoToken /\ requests = <<>> /\ inflight = {}
  /\ signed = <<>> /\ responses = <<>>
  /\ io = <<>> /\ password = Undefined
  /\ args = NoArgs /\ payload = EmptyPayload /\ errFields = <<>>
  /\ apiError = NoApiError /\ console = <<>>
  /\ ConfigLoaded /\ NothingParsed

\* the message of the error that was thrown (formatError).  The text of
\* the Error thrown by the decode of nip19 is the library's own.
ErrorMessage ==
  CASE err = "KeyfileNotFoundError" ->
         <<"Keyfile not found at ">> \o KeyfilePath
           \o <<". Run 'my2sats store-key' first to store your key.">>
    [] err = "InvalidKeyfileError" -> <<"Invalid keyfile format. Expected ncryptsec.">>
    [] err = "DecryptionError" -> <<"Failed to decrypt key. Wrong password?">>
    [] err = "InvalidSecretKeyError" ->
         <<"Invalid secret key format. Expected nsec or 64-character hex string">>
    [] err = "AbortedError" -> <<"Operation aborted.">>
    [] err = "ApiError" -> apiError.message
    [] err = "ValidationError" -> <<"Missing required fields: ">> \o errFields
    [] err = "FileNotFoundError" -> <<"File not found: ">> \o args.file
    [] err = "ImageValidationError" ->
         LET last == statLog[Len(statLog)]
         IN IF ~last.st.exists THEN <<"Image not found: ">> \o last.fullPath
            ELSE IF last.st.size > DefaultMaxImageSize
              THEN <<"Image exceeds maximum size of 5MB: ">> \o last.fullPath
            ELSE <<"Invalid image type for ">> \o last.fullPath \o <<": ", last.st.type>>
    [] err = "Error" ->
         IF cmd = "update"
         THEN <<"No updates provided. Use --file or field options (--title, --content, etc.)">>
         ELSE IF secretKey = NoKey THEN <<"nip19: ", "cannot decode">>
         ELSE <<"Passwords do not match">>
    [] err = "TypeError" -> <<"fetch failed">>
    [] err = "SyntaxError" -> <<"JSON Parse error">>
    [] OTHER -> <<>>

\* the error was handed to handleError and printed
Reported == console # <<>> /\ console[Len(console)][1] = "Error:"

\* the commands of the command line (the others are functions run alone)
Commands == {"post", "update", "delete", "store-key"}

\* handleError: the catch of the command action prints the error
handleError ==
  /\ pc = "failed" /\ cmd \in Commands /\ ~Reported
  /\ UNCHANGED <<confVars, fmVars>>
  /\ console' = Append(console, <<"Error:">> \o ErrorMessage)
  /\ UNCHANGED <<cmd, pc, err, imgVars, secretKey, netVars, keyVars, cmdVars>>

\* the process ends; the keyfile is all that stays
Exit ==
  /\ \/ pc = "done"
     \/ pc = "failed" /\ (Reported \/ cmd \notin Commands)
  /\ cmd' = "none" /\ pc' = "idle" /\ err' = "none"
  /\ content' = Empty /\ featuredImage' = Undefined /\ basePath' = Empty
  /\ imageRefs' = <<>> /\ pathsToUpload' = <<>> /\ idx' = 0 /\ file' = Empty
  /\ result' = NoResult /\ statLog' = <<>>
  /\ secretKey' = NoKey
  /\ now' = 0 /\ token' = NoToken /\ requests' = <<>> /\ inflight' = {}
  /\ signed' = <<>> /\ responses' = <<>>
  /\ io' = <<>> /\ password' = Undefined
  /\ args' = NoArgs /\ payload' = EmptyPayload /\ errFields' = <<>>
  /\ apiError' = NoApiError /\ console' = <<>>
  /\ UNCHANGED <<keyfile, sealed, confVars, fmVars>>

\* where control goes when getSecretKey returns
AfterGetSecretKey == IF cmd = "getSecretKey" THEN "done" ELSE "keyed"

\* getSecretKey(keyfilePath) called on its own
Start_getSecretKey ==
  /\ pc = "idle"
  /\ cmd' = "getSecretKey"
  /\ pc' = "getSecretKey"
  /\ UNCHANGED <<err, imgVars, secretKey, netVars, keyVars, cmdVars>>
  /\ UNCHANGED <<console, confVars, fmVars>>

\* getSecretKey, lines 54-58
getSecretKey_exists ==
  /\ pc = "getSecretKey"
  /\ io' = Append(io, "exists")
  /\ IF ~keyfile.exists
     THEN Throw("KeyfileNotFoundError")
     ELSE pc' = "getSecretKey_text" /\ err' = err
  /\ UNCHANGED <<cmd, imgVars, secretKey, netVars, keyfile, password, sealed, cmdVars>>
  /\ UNCHANGED <<console, confVars, fmVars>>

\* variant: the text goes to the prompt without the prefix test
getSecretKey_text_NoPrefixTest ==
  /\ pc = "getSecretKey_text"
  /\ io' = Append(io, "text")
  /\ pc' = "getSecretKey_prompt" /\ err' = err
  /\ UNCHANGED <<cmd, imgVars, secretKey, netVars, keyfile, password, sealed, cmdVars>>
  /\ UNCHANGED <<console, confVars, fmVars>>

\* getSecretKey, lines 60-64
getSecretKey_text ==
  /\ pc = "getSecretKey_text"
  /\ io' = Append(io, "text")
  /\ IF ~StartsWith(keyfile.text, <<"ncryptsec1">>)
     THEN Throw("InvalidKeyfileError")
     ELSE pc' = "getSecretKey_prompt" /\ err' = err
  /\ UNCHANGED <<cmd, imgVars, secretKey, netVars, keyfile, password, sealed, cmdVars>>
  /\ UNCHANGED <<console, confVars, fmVars>>

\* variant: a cancelled prompt is not told from a password
getSecretKey_prompt_NoAbort ==
  /\ pc = "getSecretKey_prompt"
  /\ \E answer \in PasswordAnswers :
       /\ password' = answer
       /\ LET d == Decrypt(Trim(keyfile.text), answer)
          IN /\ io' = io \o <<"prompt", "decrypt">>
             /\ IF d.ok
                THEN secretKey' = d.key /\ pc' = AfterGetSecretKey /\ err' = err
                ELSE secretKey' = secretKey /\ Throw("DecryptionError")
  /\ UNCHANGED <<cmd, imgVars, netVars, keyfile, sealed, cmdVars>>
  /\ UNCHANGED <<console, confVars, fmVars>>

\* getSecretKey, lines 66-80
getSecretKey_prompt ==
  /\ pc = "getSecretKey_prompt"
  /\ \E answer \in PasswordAnswers :
       /\ password' = answer
       /\ IF ~Truthy(answer)
          THEN /\ io' = Append(io, "prompt")
               /\ secretKey' = secretKey
               /\ Throw("AbortedError")
          ELSE LET d == Decrypt(Trim(keyfile.text), answer)
               IN /\ io' = io \o <<"prompt", "decrypt">>
                  /\ IF d.ok
                     THEN secretKey' = d.key /\ pc' = AfterGetSecretKey /\ err' = err
                     ELSE secretKey' = secretKey /\ Throw("DecryptionError")
  /\ UNCHANGED <<cmd, imgVars, netVars, keyfile, sealed, cmdVars>>
  /\ UNCHANGED <<console, confVars, fmVars>>

\* the store-key command is started with or without the key as argument
Start_storeKey ==
  /\ pc = "idle"
  /\ \E nsec \in KeyInputs : args' = [NoArgs EXCEPT !.nsec = nsec]
  /\ cmd' = "store-key"
  /\ pc' = "storeKey"
  /\ UNCHANGED <<err, imgVars, secretKey, netVars, keyVars, payload, errFields>>
  /\ UNCHANGED <<console, confVars, fmVars>>

\* the inputs the key prompt lets through: its validate callback runs
\* parseSecretKey on the trimmed value
AcceptedKeyInputs == {v \in KeyInputs : Truthy(v) /\ parseSecretKey(Trim(v)).ok}

\* storeKey, lines 13-41
storeKey_key ==
  /\ pc = "storeKey"
  /\ \E answer \in IF Truthy(args.nsec) THEN {args.nsec}
                   ELSE AcceptedKeyInputs \cup {Undefined} :
       /\ io' = IF Truthy(args.nsec) THEN io ELSE Append(io, "prompt-key")
       /\ IF ~Truthy(answer)
          THEN secretKey' = secretKey /\ Throw("AbortedError")
          ELSE LET parsed == parseSecretKey(answer)
               IN IF parsed.ok
                  THEN secretKey' = parsed.key /\ pc' = "storeKey_password" /\ err' = err
                  ELSE secretKey' = secretKey /\ Throw(parsed.err)
  /\ UNCHANGED <<cmd, imgVars, netVars, keyfile, password, sealed, cmdVars>>
  /\ UNCHANGED <<confVars, fmVars>>
  /\ console' = IF pc' # "failed"
                THEN Append(console, <<"Public key: ">> \o getPublicKey(secretKey'))
                ELSE console

\* how the answer to the confirmation prompt compares to the password
ConfirmAnswer(pw, confirm) ==
  IF ~Truthy(pw) \/ ~Truthy(confirm) THEN "confirm-none"
  ELSE IF pw # confirm THEN "confirm-mismatch"
  ELSE "confirm-match"

\* variant: the confirmation is asked for and not compared
storeKey_password_ConfirmationIgnored ==
  /\ pc = "storeKey_password"
  /\ \E pw \in Passwords \cup {Undefined} :
     \E confirm \in IF pw = Undefined THEN {Undefined} ELSE PasswordAnswers :
       /\ io' = io \o <<"prompt-password", ConfirmAnswer(pw, confirm)>>
       /\ IF ~Truthy(pw) \/ ~Truthy(confirm)
          THEN password' = password /\ Throw("AbortedError")
          ELSE password' = pw /\ pc' = "storeKey_write" /\ err' = err
  /\ UNCHANGED <<cmd, imgVars, secretKey, netVars, keyfile, sealed, cmdVars>>
  /\ UNCHANGED <<console, confVars, fmVars>>

\* storeKey, lines 43-64: the password prompt refuses an empty password; a
\* cancelled first prompt leaves both answers undefined
storeKey_password ==
  /\ pc = "storeKey_password"
  /\ \E pw \in Passwords \cup {Undefined} :
     \E confirm \in IF pw = Undefined THEN {Undefined} ELSE PasswordAnswers :
       /\ io' = io \o <<"prompt-password", ConfirmAnswer(pw, confirm)>>
       /\ IF ~Truthy(pw) \/ ~Truthy(confirm)
          THEN password' = password /\ Throw("AbortedError")
          ELSE IF pw # confirm
          THEN password' = password /\ Throw("Error")
          ELSE password' = pw /\ pc' = "storeKey_write" /\ err' = err
  /\ UNCHANGED <<cmd, imgVars, secretKey, netVars, keyfile, sealed, cmdVars>>
  /\ UNCHANGED <<console, confVars, fmVars>>

\* variant: the key is encrypted under a fixed password
storeKey_write_FixedPassword ==
  /\ pc = "storeKey_write"
  /\ io' = io \o <<"encrypt", "write">>
  /\ keyfile' = [exists |-> TRUE, text |-> Encrypt(secretKey, <<"pw1">>)]
  /\ sealed' = [written |-> TRUE, key |-> secretKey, pw |-> password]
  /\ pc' = "done"
  /\ UNCHANGED <<cmd, err, imgVars, secretKey, netVars, password, cmdVars>>
  /\ UNCHANGED <<confVars, fmVars>>
  /\ console' = console \o <<<<"Encrypting key (this may take a moment)...">>,
                              <<"Key stored successfully in ">> \o KeyfilePath>>

\* storeKey, lines 66-74
storeKey_write ==
  /\ pc = "storeKey_write"
  /\ io' = io \o <<"encrypt", "write">>
  /\ keyfile' = [exists |-> TRUE, text |-> Encrypt(secretKey, password)]
  /\ sealed' = [written |-> TRUE, key |-> secretKey, pw |-> password]
  /\ pc' = "done"
  /\ UNCHANGED <<cmd, err, imgVars, secretKey, netVars, password, cmdVars>>
  /\ UNCHANGED <<confVars, fmVars>>
  /\ console' = console \o <<<<"Encrypting key (this may take a moment)...">>,
                              <<"Key stored successfully in ">> \o KeyfilePath>>

InitKey ==
  /\ Idle
  /\ keyfile \in InitialKeyfiles
  /\ sealed = NotSealed

NextKey ==
  \/ Start_getSecretKey
  \/ getSecretKey_exists
  \/ getSecretKey_text
  \/ getSecretKey_prompt
  \/ Start_storeKey
  \/ storeKey_key
  \/ storeKey_password
  \/ storeKey_write
  \/ handleError
  \/ Exit

SpecKey == InitKey /\ [][NextKey]_vars

\* ======================================================================
\* The post, update and delete commands
\* ======================================================================
PostsUrl(apiUrl) == apiUrl \o <<"/api/posts">>
PostUrl(apiUrl, slug) == apiUrl \o <<"/api/posts/">> \o slug

\* getBasePath
getBasePath(filePath) ==
  LET slashes == {i \in 1..Len(filePath) : filePath[i] = "/"}
  IN IF slashes = {} THEN <<".">>
     ELSE SubSeq(filePath, 1, (CHOOSE i \in slashes : \A j \in slashes : j <= i) - 1)

\* options.tags.split(",").map((t) => t.trim())
SplitTags(tags) == SelectSeq(tags, LAMBDA t : t # "," /\ t \notin WhiteSpace)

\* what fetch can come back with for a post, update or delete request
ApiOutcomes ==
  { [kind |-> "reject", status |-> 0, json |-> FALSE, url |-> Undefined, text |-> Empty],
    [kind |-> "response", status |-> 404, json |-> FALSE, url |-> Undefined,
     text |-> <<"not found">>],
    [kind |-> "response", status |-> 300, json |-> TRUE, url |-> Undefined,
     text |-> <<"{}">>],
    [kind |-> "response", status |-> 200, json |-> FALSE, url |-> Undefined,
     text |-> <<"<html>">>],
    [kind |-> "response", status |-> 201, json |-> TRUE, url |-> Undefined,
     text |-> <<"{}">>] }

\* a client that parses the response whatever its status
ApiResponse_StatusIgnored ==
  \E out \in ApiOutcomes :
    /\ Received(out)
    /\ apiError' = apiError
    /\ IF out.kind = "reject" THEN Throw("TypeError")
       ELSE IF ~out.json THEN Throw("SyntaxError")
       ELSE pc' = "done" /\ err' = err

\* the end of createPost, updatePost and deletePost of the API client:
\* "if (!response.ok) throw new ApiError"; "return response.json()"
ApiResponse ==
  \E out \in ApiOutcomes :
    /\ Received(out)
    /\ IF out.kind = "reject" THEN Throw("TypeError") /\ apiError' = apiError
       ELSE IF ~ResponseOk(out.status)
         THEN Throw("ApiError") /\ apiError' = ApiError(out.status, out.text)
       ELSE IF ~out.json THEN Throw("SyntaxError") /\ apiError' = apiError
       ELSE pc' = "done" /\ err' = err /\ apiError' = apiError

\* ---------------------------------------------------------------- inputs
MarkdownFiles == {<<"posts", "/", "p.md">>, <<"p.md">>}
FmMin == [NoFrontmatter EXCEPT !.slug = <<"s">>, !.title = <<"A">>, !.author = <<"me">>]
Frontmatters ==
  { NoFrontmatter,
    FmMin,
    [FmMin EXCEPT !.excerpt = <<"e">>, !.featured_image = PathF, !.tags = <<"t1", "t2">>],
    [FmMin EXCEPT !.featured_image = RemoteR],
    [FmMin EXCEPT !.slug = Undefined],
    [FmMin EXCEPT !.title = Empty, !.author = Undefined],
    [NoFrontmatter EXCEPT !.title = <<"A">>],
    [NoFrontmatter EXCEPT !.tags = Empty] }
Bodies == {Empty, <<"text">>, Md(<<"a">>, PathX) \o Md(<<"b">>, PathY), Md(PathX, PathX)}
OptionSets ==
  { NoOptions,
    [NoOptions EXCEPT !.title = <<"B">>],
    [NoOptions EXCEPT !.content = Md(<<"a">>, PathX)],
    [NoOptions EXCEPT !.featuredImage = PathX],
    [NoOptions EXCEPT !.newSlug = <<"s2">>, !.excerpt = <<"e2">>, !.author = <<"you">>,
                      !.tags = <<" ", "t3", ",", "t4">>] }
Slugs == {<<"s">>}

\* ------------------------------------------------------------------ post
Start_post ==
  /\ pc = "idle"
  /\ \E f \in MarkdownFiles, ex \in BOOLEAN, fm \in Frontmatters, body \in Bodies :
       /\ ex \/ (fm = NoFrontmatter /\ body = Empty)
       /\ args' = [NoArgs EXCEPT !.file = f, !.fileExists = ex,
                                 !.frontmatter = fm, !.body = body]
  /\ cmd' = "post"
  /\ pc' = "createPost"
  /\ UNCHANGED <<err, imgVars, secretKey, netVars, keyVars, payload, errFields>>
  /\ UNCHANGED <<console, confVars, fmVars>>

\* a validation that stops at the first required field that is absent
MissingFields_FirstOnly(fm) ==
  IF ~Truthy(fm.slug) THEN <<"slug">>
  ELSE IF ~Truthy(fm.title) THEN <<"title">>
  ELSE IF ~Truthy(fm.author) THEN <<"author">>
  ELSE <<>>

\* the required fields that are absent or empty
MissingFields(fm) ==
  (IF ~Truthy(fm.slug) THEN <<"slug">> ELSE <<>>)
  \o (IF ~Truthy(fm.title) THEN <<"title">> ELSE <<>>)
  \o (IF ~Truthy(fm.author) THEN <<"author">> ELSE <<>>)

\* createPost (command), lines 14-41
createPost_read ==
  /\ pc = "createPost"
  /\ IF ~args.fileExists THEN
       /\ Throw("FileNotFoundError")
       /\ UNCHANGED <<payload, errFields>>
     ELSE IF MissingFields(args.frontmatter) # <<>> THEN
       /\ Throw("ValidationError")
       /\ errFields' = MissingFields(args.frontmatter)
       /\ UNCHANGED payload
     ELSE
       /\ payload' = [slug |-> args.frontmatter.slug, title |-> args.frontmatter.title,
                      content |-> args.body, author |-> args.frontmatter.author,
                      excerpt |-> args.frontmatter.excerpt,
                      featured_image |-> args.frontmatter.featured_image,
                      tags |-> args.frontmatter.tags]
       /\ pc' = "getSecretKey"
       /\ UNCHANGED <<err, errFields>>
  /\ UNCHANGED <<cmd, imgVars, secretKey, netVars, keyVars, args>>
  /\ UNCHANGED <<console, confVars, fmVars>>

\* createPost (command), lines 52-62: processImages is called
createPost_processImages ==
  /\ pc = "keyed" /\ cmd = "post"
  /\ content' = args.body
  /\ featuredImage' = args.frontmatter.featured_image
  /\ basePath' = getBasePath(args.file)
  /\ pc' = "processImages"
  /\ UNCHANGED <<cmd, err, imageRefs, pathsToUpload, idx, file, result, statLog,
                 secretKey, netVars, keyVars, cmdVars>>
  /\ UNCHANGED <<confVars, fmVars>>
  /\ console' = Append(console, <<"Using pubkey: ">> \o getPublicKey(secretKey))

\* createPost (command), lines 64-69, and createPost (API), lines 23-24
createPost_getToken ==
  /\ pc = "processed" /\ cmd = "post"
  /\ payload' = [payload EXCEPT !.content = result.content,
                                !.featured_image = result.featuredImageUrl]
  /\ GetToken(PostsUrl(ApiUrl), "POST", "createPost_fetch")
  /\ UNCHANGED <<cmd, err, imgVars, secretKey, keyVars, args, errFields>>
  /\ UNCHANGED <<console, confVars, fmVars>>

\* createPost (API), lines 26-34
createPost_fetch ==
  /\ pc = "createPost_fetch"
  /\ Fetch(PostsUrl(ApiUrl), "POST", JsonBody(payload), "createPost_response")
  /\ UNCHANGED <<cmd, err, imgVars, secretKey, keyVars, cmdVars>>
  /\ UNCHANGED <<confVars, fmVars>>
  /\ console' = Append(console, <<"Posting to ">> \o PostsUrl(ApiUrl) \o <<"...">>)

\* createPost (API), lines 36-41
createPost_response ==
  /\ pc = "createPost_response"
  /\ ApiResponse
  /\ UNCHANGED <<cmd, imgVars, secretKey, keyVars, cmdVars>>
  /\ UNCHANGED <<confVars, fmVars>>
  /\ console' = IF pc' = "done"
                THEN console \o <<<<"Post created successfully:">>,
                                  responses'[Len(responses')].text>>
                ELSE console

\* ---------------------------------------------------------------- update
Start_update ==
  /\ pc = "idle"
  /\ \E slug \in Slugs, opts \in OptionSets, f \in MarkdownFiles \cup {Undefined},
        ex \in BOOLEAN, fm \in Frontmatters, body \in Bodies :
       /\ (f # Undefined /\ ex) \/ (fm = NoFrontmatter /\ body = Empty)
       /\ f = Undefined => ~ex
       /\ args' = [NoArgs EXCEPT !.slug = slug, !.opts = opts, !.file = f,
                                 !.fileExists = ex, !.frontmatter = fm, !.body = body]
  /\ cmd' = "update"
  /\ pc' = "updatePost"
  /\ UNCHANGED <<err, imgVars, secretKey, netVars, keyVars, payload, errFields>>
  /\ UNCHANGED <<console, confVars, fmVars>>

\* a value of the file, replaced by the option when the option is given
Override(fromFile, option) ==
  IF Truthy(option) THEN option ELSE IF Truthy(fromFile) THEN fromFile ELSE Undefined

\* updatePost (command), lines 14-53: the payload, contentFromFile and
\* featuredImageFromFile after the file was read and the options applied
MergedUpdate(a) ==
  LET useFile == Truthy(a.file)
      fm == IF useFile THEN a.frontmatter ELSE NoFrontmatter
      o == a.opts
  IN [payload |->
        [slug |-> Override(fm.slug, o.newSlug),
         title |-> Override(fm.title, o.title),
         content |-> IF Truthy(o.content) THEN o.content ELSE Undefined,
         author |-> Override(fm.author, o.author),
         excerpt |-> Override(fm.excerpt, o.excerpt),
         featured_image |-> Undefined,
         tags |-> IF Truthy(o.tags) THEN SplitTags(o.tags)
                  ELSE IF fm.tags # Undefined THEN fm.tags ELSE Undefined],
      contentFromFile |-> IF useFile /\ Truthy(a.body) THEN a.body ELSE Undefined,
      featuredImageFromFile |-> Override(fm.featured_image, o.featuredImage),
      basePath |-> IF useFile THEN getBasePath(a.file) ELSE <<".">>]

\* Object.keys(payload).length === 0
NoKeys(data) == data = EmptyPayload

\* updatePost (command), lines 14-61
updatePost_merge ==
  /\ pc = "updatePost"
  /\ IF Truthy(args.file) /\ ~args.fileExists THEN
       /\ Throw("FileNotFoundError")
       /\ UNCHANGED <<payload, content, featuredImage, basePath>>
     ELSE
       LET m == MergedUpdate(args)
       IN /\ payload' = m.payload
          /\ content' = IF Truthy(m.contentFromFile) THEN m.contentFromFile ELSE Empty
          /\ featuredImage' = m.featuredImageFromFile
          /\ basePath' = m.basePath
          /\ IF NoKeys(m.payload) /\ ~Truthy(m.contentFromFile)
                /\ ~Truthy(m.featuredImageFromFile)
             THEN Throw("Error")
             ELSE pc' = "getSecretKey" /\ err' = err
  /\ UNCHANGED <<cmd, imageRefs, pathsToUpload, idx, file, result, statLog,
                 secretKey, netVars, keyVars, args, errFields>>
  /\ UNCHANGED <<console, confVars, fmVars>>

\* an update that sends the payload without processing the images
updatePost_processImages_Skip ==
  /\ pc = "keyed" /\ cmd = "update"
  /\ pc' = "processed"
  /\ UNCHANGED <<cmd, err, imgVars, secretKey, netVars, keyVars, cmdVars>>
  /\ UNCHANGED <<confVars, fmVars>>
  /\ console' = Append(console, <<"Using pubkey: ">> \o getPublicKey(secretKey))

\* updatePost (command), lines 72-80: processImages is called when the file
\* gave content or there is a featured image
updatePost_processImages ==
  /\ pc = "keyed" /\ cmd = "update"
  /\ pc' = IF Truthy(content) \/ Truthy(featuredImage) THEN "processImages" ELSE "processed"
  /\ UNCHANGED <<cmd, err, imgVars, secretKey, netVars, keyVars, cmdVars>>
  /\ UNCHANGED <<confVars, fmVars>>
  /\ console' = Append(console, <<"Using pubkey: ">> \o getPublicKey(secretKey))

\* updatePost (command), lines 82-91, and updatePost (API), lines 53-54
updatePost_getToken ==
  /\ pc = "processed" /\ cmd = "update"
  /\ payload' = [payload EXCEPT
                   !.content = IF result.returned /\ Truthy(content)
                               THEN result.content ELSE @,
                   !.featured_image = IF result.returned /\ Truthy(featuredImage)
                                      THEN result.featuredImageUrl ELSE @]
  /\ GetToken(PostUrl(ApiUrl, args.slug), "PUT", "updatePost_fetch")
  /\ UNCHANGED <<cmd, err, imgVars, secretKey, keyVars, args, errFields>>
  /\ UNCHANGED <<console, confVars, fmVars>>

\* updatePost (API), lines 56-64
updatePost_fetch ==
  /\ pc = "updatePost_fetch"
  /\ Fetch(PostUrl(ApiUrl, args.slug), "PUT", JsonBody(payload), "updatePost_response")
  /\ UNCHANGED <<cmd, err, imgVars, secretKey, keyVars, cmdVars>>
  /\ UNCHANGED <<confVars, fmVars>>
  /\ console' = Append(console, <<"Updating post at ">> \o PostUrl(ApiUrl, args.slug)
                                   \o <<"...">>)

\* updatePost (API), lines 66-71
updatePost_response ==
  /\ pc = "updatePost_response"
  /\ ApiResponse
  /\ UNCHANGED <<cmd, imgVars, secretKey, keyVars, cmdVars>>
  /\ UNCHANGED <<confVars, fmVars>>
  /\ console' = IF pc' = "done"
                THEN console \o <<<<"Post updated successfully:">>,
                                  responses'[Len(responses')].text>>
                ELSE console

\* ---------------------------------------------------------------- delete
Start_delete ==
  /\ pc = "idle"
  /\ \E slug \in Slugs, force \in BOOLEAN :
       args' = [NoArgs EXCEPT !.slug = slug, !.force = force]
  /\ cmd' = "delete"
  /\ pc' = "deletePost"
  /\ UNCHANGED <<err, imgVars, secretKey, netVars, keyVars, payload, errFields>>
  /\ UNCHANGED <<console, confVars, fmVars>>

\* a command that asks and goes on whatever the answer
deletePost_confirm_Ignored ==
  /\ pc = "deletePost"
  /\ IF args.force
     THEN io' = io /\ pc' = "getSecretKey"
     ELSE \E confirmed \in BOOLEAN :
            /\ io' = Append(io, IF confirmed THEN "confirm-yes" ELSE "confirm-no")
            /\ pc' = "getSecretKey"
  /\ UNCHANGED <<cmd, err, imgVars, secretKey, netVars, keyfile, password, sealed, cmdVars>>
  /\ UNCHANGED <<console, confVars, fmVars>>

\* deletePost (command), lines 14-27: the confirmation is answered yes or
\* no, or cancelled
deletePost_confirm ==
  /\ pc = "deletePost"
  /\ IF args.force
     THEN io' = io /\ pc' = "getSecretKey"
     ELSE \E confirmed \in BOOLEAN :
            /\ io' = Append(io, IF confirmed THEN "confirm-yes" ELSE "confirm-no")
            /\ pc' = IF confirmed THEN "getSecretKey" ELSE "done"
  /\ UNCHANGED <<cmd, err, imgVars, secretKey, netVars, keyfile, password, sealed, cmdVars>>
  /\ UNCHANGED <<confVars, fmVars>>
  /\ console' = IF pc' = "done"
                THEN Append(console, <<"Deletion cancelled.">>) ELSE console

\* deletePost (command), lines 29-39, and deletePost (API), lines 82-83
deletePost_getToken ==
  /\ pc = "keyed" /\ cmd = "delete"
  /\ GetToken(PostUrl(ApiUrl, args.slug), "DELETE", "deletePost_fetch")
  /\ UNCHANGED <<cmd, err, imgVars, secretKey, keyVars, cmdVars>>
  /\ UNCHANGED <<confVars, fmVars>>
  /\ console' = Append(console, <<"Using pubkey: ">> \o getPublicKey(secretKey))

\* deletePost (API), lines 85-91
deletePost_fetch ==
  /\ pc = "deletePost_fetch"
  /\ Fetch(PostUrl(ApiUrl, args.slug), "DELETE", NoBody, "deletePost_response")
  /\ UNCHANGED <<cmd, err, imgVars, secretKey, keyVars, cmdVars>>
  /\ UNCHANGED <<confVars, fmVars>>
  /\ console' = Append(console, <<"Deleting post at ">> \o PostUrl(ApiUrl, args.slug)
                                   \o <<"...">>)

\* a client that signs and sends the request again when it has failed
deletePost_response_Retry ==
  /\ pc = "deletePost_response"
  /\ \E out \in ApiOutcomes :
       /\ Received(out)
       /\ apiError' = apiError
       /\ err' = err
       /\ pc' = IF out.kind = "reject" \/ ~ResponseOk(out.status) \/ ~out.json
                THEN "keyed" ELSE "done"
  /\ UNCHANGED <<cmd, imgVars, secretKey, keyVars, cmdVars>>
  /\ UNCHANGED <<console, confVars, fmVars>>

\* deletePost (API), lines 93-98
deletePost_response ==
  /\ pc = "deletePost_response"
  /\ ApiResponse
  /\ UNCHANGED <<cmd, imgVars, secretKey, keyVars, cmdVars>>
  /\ UNCHANGED <<confVars, fmVars>>
  /\ console' = IF pc' = "done"
                THEN console \o <<<<"Post deleted successfully:">>,
                                  responses'[Len(responses')].text>>
                ELSE console

\* ------------------------------------------------------- the command line
Init ==
  /\ Idle
  /\ keyfile \in InitialKeyfiles
  /\ sealed = NotSealed

Next ==
  \/ Start_storeKey \/ storeKey_key \/ storeKey_password \/ storeKey_write
  \/ getSecretKey_exists \/ getSecretKey_text \/ getSecretKey_prompt
  \/ Start_post \/ createPost_read \/ createPost_processImages
  \/ createPost_getToken \/ createPost_fetch \/ createPost_response
  \/ Start_update \/ updatePost_merge \/ updatePost_processImages
  \/ updatePost_getToken \/ updatePost_fetch \/ updatePost_response
  \/ Start_delete \/ deletePost_confirm
  \/ deletePost_getToken \/ deletePost_fetch \/ deletePost_response
  \/ processImages_collect \/ validateImageFile
  \/ uploadImage_getToken \/ uploadImage_fetch \/ uploadImage_response
  \/ processImages_replace
  \/ handleError
  \/ Exit

Spec == Init /\ [][Next]_vars

\* ======================================================================
\* Properties of the authorization proofs
\* ======================================================================

\* where a token has been signed and its request is about to be sent
FetchSteps == {"uploadImage_fetch", "createPost_fetch", "updatePost_fetch", "deletePost_fetch"}

\* what the signature covers
Assertion(auth) == [u |-> auth.u, method |-> auth.method, created_at |-> auth.created_at,
                    payload |-> auth.payload, pubkey |-> auth.pubkey]

\* C6: every request sent carries the proof made by its own invocation of sign: the i-th request carries the token of the i-th invocation, signed for that request's URL and method; no token is on two requests; sign runs immediately before the request is sent, so the invocations are one ahead of the requests exactly between signing and sending, and equal in number otherwise.
C6_FreshProofPerRequest ==
  /\ \A i \in 1..Len(requests) :
       /\ requests[i].auth.scheme = "Nostr "
       /\ requests[i].auth.signNo = i
       /\ i <= Len(signed)
       /\ signed[i].u = requests[i].url
       /\ signed[i].method = requests[i].method
  /\ \A i, j \in 1..Len(requests) :
       i # j => requests[i].auth.signNo # requests[j].auth.signNo
  /\ IF pc \in FetchSteps
     THEN Len(signed) = Len(requests) + 1 /\ token.signNo = Len(signed)
     ELSE Len(signed) = Len(requests)

C6_Witness ==
  /\ cmd = "post" /\ pc = "done"
  /\ Len(requests) = 3 /\ Len(signed) = 3
  /\ requests[1].url = requests[2].url
  /\ requests[1].method = "POST" /\ requests[2].method = "POST"
  /\ requests[1].body # requests[2].body
  /\ requests[3].url = PostsUrl(ApiUrl)

\* C7 as stated: the signed assertion of a request names the request's method and URL and, when the request has a body, a hash of the body, so that two requests that differ in URL, method or body never carry the same signed assertion.
C7_ProofBoundToBody ==
  /\ \A i \in 1..Len(requests) :
       /\ requests[i].auth.u = requests[i].url
       /\ requests[i].auth.method = requests[i].method
       /\ requests[i].body.kind # "none" => requests[i].auth.payload # "none"
  /\ \A i, j \in 1..Len(requests) :
       (\/ requests[i].url # requests[j].url
        \/ requests[i].method # requests[j].method
        \/ requests[i].body # requests[j].body)
         => Assertion(requests[i].auth) # Assertion(requests[j].auth)

\* what does hold of the binding: the assertion names the method and the URL of its request, and never the body
C7_BoundToMethodAndUrlOnly ==
  \A i \in 1..Len(requests) :
    /\ requests[i].auth.u = requests[i].url
    /\ requests[i].auth.method = requests[i].method
    /\ requests[i].auth.payload = "none"

\* two uploads of different files in the same second carry the same assertion
C7_SameAssertionTwoBodies ==
  /\ Len(requests) >= 2
  /\ requests[1].body # requests[2].body
  /\ Assertion(requests[1].auth) = Assertion(requests[2].auth)

\* ======================================================================
\* Properties of the key vault
\* ======================================================================

\* the steps of getSecretKey, in the order of the source
OpenSteps == <<"exists", "text", "prompt", "decrypt">>
\* getSecretKey is what is running (on its own or inside a command)
Opening == cmd \notin {"none", "store-key", "processImages"}
Did(step) == \E i \in 1..Len(io) : io[i] = step
IsOpenStep(e) == e \in {"exists", "text", "prompt", "decrypt"}
\* the keyfile starts with the vault prefix
HasVaultPrefix == keyfile.text # <<>> /\ keyfile.text[1] = "ncryptsec1"

\* C8: getSecretKey checks in a fixed order: KeyfileNotFound when there is no
\* file; else InvalidKeyfileFormat when the text does not start with the
\* vault prefix, before any prompt or decryption; only then DecryptionFailed
\* when the password does not recover a key.
C8_ChecksInOrder ==
  Opening =>
    /\ LET steps == SelectSeq(io, IsOpenStep)
       IN steps = SubSeq(OpenSteps, 1, Len(steps))
    /\ Did("exists") => (err = "KeyfileNotFoundError" <=> ~keyfile.exists)
    /\ (Did("text") /\ ~HasVaultPrefix) => (err = "InvalidKeyfileError" /\ ~Did("prompt"))
    /\ err = "InvalidKeyfileError" =>
         (keyfile.exists /\ ~HasVaultPrefix /\ ~Did("prompt") /\ ~Did("decrypt"))
    /\ err = "DecryptionError" =>
         /\ keyfile.exists /\ HasVaultPrefix /\ SelectSeq(io, IsOpenStep) = OpenSteps
         /\ ~Decrypt(Trim(keyfile.text), password).ok
    /\ (Did("decrypt") /\ ~Decrypt(Trim(keyfile.text), password).ok)
         => err = "DecryptionError"

\* a keyfile that holds a bare nsec is refused after it was read and before
\* anything was asked
C8_Witness ==
  /\ cmd = "getSecretKey" /\ err = "InvalidKeyfileError"
  /\ keyfile.text = <<"nsec1", "vl02">>
  /\ io = <<"exists", "text">>

\* C9: a cancelled password prompt makes getSecretKey fail with AbortedError,
\* never with DecryptionError, and nothing is decrypted.
C9_CancelAborts ==
  (Opening /\ Did("prompt") /\ password = Undefined)
    => (pc = "failed" /\ err = "AbortedError" /\ ~Did("decrypt") /\ secretKey = NoKey)

\* the prompt for a keyfile written by store-key was cancelled
C9_Witness ==
  /\ cmd = "getSecretKey" /\ sealed.written /\ HasVaultPrefix
  /\ io = <<"exists", "text", "prompt">>
  /\ password = Undefined /\ err = "AbortedError"

\* C10 as stated: a keyfile written by store-key with pw opens to the key it
\* was given under pw, and under any other password fails with
\* DecryptionError.
C10_AnyOtherPasswordFailsDecryption ==
  (cmd = "getSecretKey" /\ sealed.written /\ Did("prompt"))
    => /\ password = sealed.pw => (pc = "done" /\ secretKey = sealed.key)
       /\ (password # sealed.pw /\ password # Undefined) => err = "DecryptionError"

\* C10, amended: a keyfile written by store-key with pw opens to the key it
\* was given under pw, and under any other non-empty password fails with
\* DecryptionError; an empty answer ends as a cancelled prompt does.
C10_SealOpenRoundTrip ==
  (cmd = "getSecretKey" /\ sealed.written /\ Did("prompt"))
    => /\ keyfile.text = Encrypt(sealed.key, sealed.pw)
       /\ password = sealed.pw => (pc = "done" /\ err = "none" /\ secretKey = sealed.key)
       /\ (password # sealed.pw /\ Truthy(password))
            => (pc = "failed" /\ err = "DecryptionError" /\ secretKey = NoKey)
       /\ ~Truthy(password) => err = "AbortedError"

\* the key given to store-key as an nsec came back under the same password
C10_Witness ==
  /\ cmd = "getSecretKey" /\ pc = "done"
  /\ sealed.written /\ sealed.pw = <<"pw2">>
  /\ password = <<"pw2">>
  /\ secretKey = <<"1b", "0a">> /\ secretKey = sealed.key

\* ======================================================================
\* Properties of the key codec
\* ======================================================================

\* the number of bytes of a key: each run stands for 16 bytes
KeyLength(key) == 16 * Len(key)
\* the input is 64 hexadecimal digits in any letter case
IsHexKey(s) == Len(s) = 2 /\ \A i \in 1..Len(s) : s[i] \in HexRuns
\* the input is a valid nsec encoding of a private key
IsNsecKey(s) == Len(s) = 2 /\ s[1] = "nsec1" /\ s[2] \in DOMAIN NsecData
\* store-key was given the key as its argument and has decoded it
DecodedArgument == cmd = "store-key" /\ Truthy(args.nsec) /\ pc # "storeKey"

\* C11 as stated: parseSecretKey returns exactly 32 bytes for every 64-digit hexadecimal string (any case, surrounding whitespace allowed) and every valid nsec string, and fails with InvalidSecretKeyError, and no other kind of error, for every other input.
C11_DecodeTotalInTwoOutcomes ==
  DecodedArgument =>
    IF IsHexKey(Trim(args.nsec)) \/ IsNsecKey(Trim(args.nsec))
    THEN /\ KeyLength(secretKey) = 32
         /\ err # "InvalidSecretKeyError"
    ELSE /\ pc = "failed"
         /\ err = "InvalidSecretKeyError"
         /\ secretKey = NoKey

\* what does hold: valid inputs give 32 bytes, and an input that does not start with nsec1 and is not 64 hexadecimal digits fails with InvalidSecretKeyError
C11_HexDecodeTotal ==
  (DecodedArgument /\ ~StartsWith(Trim(args.nsec), <<"nsec1">>)) =>
    IF IsHexKey(Trim(args.nsec))
    THEN KeyLength(secretKey) = 32 /\ err # "InvalidSecretKeyError"
    ELSE pc = "failed" /\ err = "InvalidSecretKeyError"

\* ======================================================================
\* Properties of the update command
\* ======================================================================

\* the update requests that were sent
UpdateRequests == {i \in 1..Len(requests) : requests[i].method = "PUT"}
\* the file of the update command supplies a value
FromFile(v) == Truthy(args.file) /\ Truthy(v)
\* the value sent for a featured image: what its upload returned when it is local
SentImage(path) ==
  IF isLocalPath(path) THEN MapGet(pathsToUpload, path) ELSE path

\* the fields other than content carry the option's value when file and option both give one
OptionsWinExceptContent(sent) ==
  LET fm == args.frontmatter
      o == args.opts
  IN /\ (FromFile(fm.slug) /\ Truthy(o.newSlug)) => sent.slug = o.newSlug
     /\ (FromFile(fm.title) /\ Truthy(o.title)) => sent.title = o.title
     /\ (FromFile(fm.excerpt) /\ Truthy(o.excerpt)) => sent.excerpt = o.excerpt
     /\ (FromFile(fm.author) /\ Truthy(o.author)) => sent.author = o.author
     /\ (FromFile(fm.tags) /\ Truthy(o.tags)) => sent.tags = SplitTags(o.tags)
     /\ (FromFile(fm.featured_image) /\ Truthy(o.featuredImage))
          => sent.featured_image = SentImage(o.featuredImage)

\* C12 as stated: in the update command, for each of slug, title, content, excerpt, featured image, author and tags, when the file and a command-line option both supply a value, the payload sent carries the command-line value.
C12_OptionsOverrideFile ==
  \A i \in UpdateRequests :
    /\ OptionsWinExceptContent(requests[i].body.payload)
    /\ (FromFile(args.body) /\ Truthy(args.opts.content))
         => requests[i].body.payload.content = args.opts.content

\* what does hold: every field but content carries the command-line value
C12_OptionsOverrideFileExceptContent ==
  \A i \in UpdateRequests : OptionsWinExceptContent(requests[i].body.payload)

\* an update was sent whose content is the file's although --content was given
C12_FileContentSent ==
  /\ cmd = "update" /\ UpdateRequests # {}
  /\ args.opts.content = Md(<<"a">>, PathX)
  /\ args.body = <<"text">>
  /\ \E i \in UpdateRequests : requests[i].body.payload.content = <<"text">>

\* the file of the update command gives a field, content or a featured image
FileGivesSomething ==
  /\ Truthy(args.file)
  /\ \/ Truthy(args.frontmatter.slug) \/ Truthy(args.frontmatter.title)
     \/ Truthy(args.frontmatter.author) \/ Truthy(args.frontmatter.excerpt)
     \/ Truthy(args.frontmatter.featured_image) \/ args.frontmatter.tags # Undefined
     \/ Truthy(args.body)
\* an option of the update command gives a field
OptionGivesSomething ==
  \/ Truthy(args.opts.newSlug) \/ Truthy(args.opts.title) \/ Truthy(args.opts.content)
  \/ Truthy(args.opts.excerpt) \/ Truthy(args.opts.featuredImage)
  \/ Truthy(args.opts.author) \/ Truthy(args.opts.tags)
\* the update command has read its inputs
UpdateMerged == cmd = "update" /\ pc # "updatePost"
\* the file named on the command line could not be read
UpdateFileMissing == Truthy(args.file) /\ ~args.fileExists

\* C13 as stated: the update command fails with the no-updates error exactly when file and options together give no field, no content and no featured image; it fails before the password prompt and before any network call; and every update request sent carries at least one field.
C13_NoUpdatesExactlyWhenEmpty ==
  UpdateMerged =>
    /\ err = "Error" <=> (~UpdateFileMissing /\ ~FileGivesSomething /\ ~OptionGivesSomething)
    /\ err = "Error" =>
         (pc = "failed" /\ io = <<>> /\ signed = <<>> /\ requests = <<>>)
    /\ \A i \in UpdateRequests : requests[i].body.payload # EmptyPayload

\* the part about the failure alone
C13_NoUpdatesFailsFirst ==
  UpdateMerged =>
    /\ err = "Error" <=> (~UpdateFileMissing /\ ~FileGivesSomething /\ ~OptionGivesSomething)
    /\ err = "Error" =>
         (pc = "failed" /\ io = <<>> /\ signed = <<>> /\ requests = <<>>)

\* ======================================================================
\* Properties of the post command
\* ======================================================================

\* the create requests that were sent
CreateRequests ==
  {i \in 1..Len(requests) : requests[i].method = "POST" /\ requests[i].body.kind = "json"}
\* the required fields, in the order they are tested
RequiredFields == <<"slug", "title", "author">>
\* the required fields the front-matter leaves absent or empty
Absent(fm) == SelectSeq(RequiredFields, LAMBDA f : ~Truthy(fm[f]))
\* the post command has read its file
PostRead == cmd = "post" /\ pc # "createPost"

\* C14: the post command fails with ValidationError exactly when a required field is absent or empty, the error lists every such field in the order slug, title, author, the failure comes before the password prompt, any sign call and any request, and every create request sent has non-empty slug, title and author.
C14_ValidationNamesEveryMissingField ==
  /\ PostRead =>
       /\ args.fileExists => (err = "ValidationError" <=> Absent(args.frontmatter) # <<>>)
       /\ err = "ValidationError" =>
            /\ pc = "failed"
            /\ errFields = Absent(args.frontmatter)
            /\ io = <<>> /\ signed = <<>> /\ requests = <<>>
       /\ err # "ValidationError" => errFields = <<>>
  /\ \A i \in CreateRequests :
       \A j \in 1..Len(RequiredFields) :
         Truthy(requests[i].body.payload[RequiredFields[j]])

C14_Witness ==
  /\ cmd = "post" /\ pc = "failed" /\ err = "ValidationError"
  /\ args.frontmatter.slug = <<"s">>
  /\ args.frontmatter.title = Empty /\ args.frontmatter.author = Undefined
  /\ errFields = <<"title", "author">>

\* ======================================================================
\* Properties of the order of a command run
\* ======================================================================

\* the create and update requests that were sent
PostRequests == CreateRequests \cup UpdateRequests
\* the errors of opening the key
KeyErrors == {"KeyfileNotFoundError", "InvalidKeyfileError", "AbortedError", "DecryptionError"}
\* an upload request was answered with a failure
SomeUploadFailed ==
  \E k \in 1..Len(responses) : requests[k].body.kind = "form" /\ FailedUpload(responses[k])

Is2xx(status) == status >= 200 /\ status <= 299
\* the text ends with the given tail
EndsWith(s, tail) ==
  Len(tail) <= Len(s) /\ SubSeq(s, Len(s) - Len(tail) + 1, Len(s)) = tail
\* the kind of a request: upload, create, update or delete
KindOf(req) ==
  IF req.body.kind = "form" THEN "upload"
  ELSE IF req.method = "POST" THEN "create"
  ELSE IF req.method = "PUT" THEN "update"
  ELSE "delete"

\* C16: for an upload, create, update or delete request, a response whose status is not 2xx ends the operation with ApiError carrying that status and the body text, and nothing is taken from the response as a result; a 2xx response never raises ApiError.
C16_Non2xxIsApiError ==
  /\ \A k \in 1..Len(responses) :
       (responses[k].kind = "response" /\ ~Is2xx(responses[k].status)) =>
         /\ k = Len(responses) /\ k = Len(requests)
         /\ pc = "failed" /\ err = "ApiError"
         /\ apiError.status = responses[k].status
         /\ EndsWith(apiError.message, responses[k].text)
         /\ KindOf(requests[k]) = "upload" =>
              /\ ~result.returned
              /\ MapGet(pathsToUpload, pathsToUpload[idx].path) = Empty
  /\ err = "ApiError" =>
       /\ responses # <<>>
       /\ responses[Len(responses)].kind = "response"
       /\ ~Is2xx(responses[Len(responses)].status)
  /\ err # "ApiError" => apiError = NoApiError

C16_Witness ==
  /\ cmd = "delete" /\ pc = "failed" /\ err = "ApiError"
  /\ Len(requests) = 1 /\ KindOf(requests[1]) = "delete"
  /\ responses[1].status = 404
  /\ apiError.status = 404
  /\ apiError.message = <<"API request failed: ", "not found">>

\* ======================================================================
\* Properties of a run as a whole
\* ======================================================================

\* how often a step was taken in this run
Count(step) == Len(SelectSeq(io, LAMBDA e : e = step))
\* the delete requests that were sent
DeleteRequests == {i \in 1..Len(requests) : requests[i].method = "DELETE"}
\* fetch failed, or its response was a failure
NetworkFailure(out) == out.kind = "reject" \/ ~Is2xx(out.status) \/ ~out.json

\* C17: in one command run the password is prompted at most once and decryption attempted at most once; the post request, the delete request and the upload of each file are sent at most once; and after a failed decryption or a failed request there is no further prompt, sign call or request.
C17_NoRetries ==
  /\ Count("prompt") <= 1 /\ Count("decrypt") <= 1
  /\ Cardinality(PostRequests) <= 1 /\ Cardinality(DeleteRequests) <= 1
  /\ \A i, j \in UploadRequests :
       requests[i].body.file = requests[j].body.file => i = j
  /\ err = "DecryptionError" =>
       /\ pc = "failed"
       /\ Count("prompt") = 1 /\ Count("decrypt") = 1
       /\ signed = <<>> /\ requests = <<>>
  /\ \A k \in 1..Len(responses) :
       NetworkFailure(responses[k]) =>
         /\ pc = "failed"
         /\ k = Len(responses) /\ k = Len(requests) /\ k = Len(signed)

C17_Witness ==
  /\ cmd = "post" /\ pc = "failed" /\ err = "TypeError"
  /\ Count("prompt") = 1 /\ Count("decrypt") = 1
  /\ Len(requests) = 2 /\ Len(signed) = 2
  /\ ~NetworkFailure(responses[1]) /\ responses[2].kind = "reject"

\* the kinds of failure the error taxonomy names
Taxonomy ==
  {"InvalidSecretKeyError", "KeyfileNotFoundError", "InvalidKeyfileError", "DecryptionError",
   "AbortedError", "ImageValidationError", "ApiError", "ValidationError"}

\* C18 as stated: every operation either returns its result or fails with exactly one of the kinds InvalidSecretKey, KeyfileNotFound, InvalidKeyfileFormat, DecryptionFailed, OperationAborted, ImageValidationError, ApiError and ValidationError; a failed operation returns nothing and a finished one has raised nothing.
C18_OnlyTaxonomyErrors ==
  /\ pc = "failed" => err \in Taxonomy
  /\ pc = "done" => err = "none"
  /\ err # "none" => pc = "failed"

\* what does hold: a run that failed carries an error and a run that finished carries none
C18_FailedOrFinished ==
  /\ pc = "failed" => err # "none"
  /\ pc = "done" => err = "none"
  /\ err # "none" => pc = "failed"

\* the failures outside the taxonomy that are reached
C18_OtherKinds ==
  pc = "failed" /\ err \in {"Error", "FileNotFoundError", "TypeError", "SyntaxError"}

\* ======================================================================
\* Properties of the secret key
\* ======================================================================

\* the texts that give a secret key away: its hexadecimal digits in either case and its nsec encoding
ClearKeyTokens == HexRuns \cup DOMAIN NsecData
Leaks(text) == \E i \in 1..Len(text) : text[i] \in ClearKeyTokens
\* every text a request carries: URL, authorization and body
TextsOf(req) ==
  {req.url, req.auth.u, req.auth.pubkey, req.body.file}
    \cup {req.body.payload[f] : f \in DOMAIN req.body.payload}

DeleteSigned == {i \in 1..Len(signed) : signed[i].method = "DELETE"}

\* C20: a DELETE request is signed and sent only in a delete command run with --force or after the confirmation was answered yes; with --force no confirmation is asked; and when the user declines, the command ends normally, without an error, without the password prompt, without decrypting the key and without any request.
C20_DeleteOnlyWhenConfirmed ==
  /\ (DeleteRequests # {} \/ DeleteSigned # {}) =>
       (cmd = "delete" /\ (args.force \/ Did("confirm-yes")))
  /\ cmd = "delete" =>
       /\ args.force => (~Did("confirm-yes") /\ ~Did("confirm-no"))
       /\ (~args.force /\ pc # "deletePost") => (Did("confirm-yes") \/ Did("confirm-no"))
       /\ Did("confirm-no") =>
            /\ pc = "done" /\ err = "none"
            /\ io = <<"confirm-no">>
            /\ secretKey = NoKey
            /\ signed = <<>> /\ requests = <<>>

C20_Witness ==
  /\ cmd = "delete" /\ pc = "done" /\ ~args.force
  /\ io = <<"confirm-no">>
  /\ console = <<<<"Deletion cancelled.">>>>
  /\ requests = <<>>

\* ======================================================================
\* parseImageReferences on its own
\* ======================================================================
MaxPieces == 3

\* the pieces scanned content is made of: the text, the syntax it is written in, the path it names and whether that path is an http:// or https:// URL
Piece(text, kind, path, remote) ==
  [text |-> text, kind |-> kind, path |-> path, remote |-> remote]
ImgAlt(path) ==
  <<"<img", " ", "src=", "\"">> \o path \o <<"\"", " ", "alt=", "\"", "t", "\"", " ", "/", ">">>
ScanPieces ==
  { Piece(Md(<<"a">>, PathX), "md", PathX, FALSE),
    Piece(Md(<<>>, PathF), "md", PathF, FALSE),
    Piece(MdTitled(<<"b">>, PathY), "md", PathY, FALSE),
    Piece(Md(<<"r">>, RemoteR), "md", RemoteR, TRUE),
    Piece(Img("'", PathX), "html", PathX, FALSE),
    Piece(ImgAlt(PathY), "html", PathY, FALSE),
    Piece(Img("\"", <<"http://", "r">>), "html", <<"http://", "r">>, TRUE),
    Piece(<<" and ">>, "text", <<>>, FALSE) }

RECURSIVE PieceListsUpTo(_)
PieceListsUpTo(n) ==
  IF n = 0 THEN {<<>>}
  ELSE LET prev == PieceListsUpTo(n - 1)
       IN prev \cup {Append(l, p) : l \in prev, p \in ScanPieces}

RECURSIVE TextOf(_)
TextOf(l) == IF l = <<>> THEN <<>> ELSE Head(l).text \o TextOf(Tail(l))

ScanContents == {TextOf(l) : l \in PieceListsUpTo(MaxPieces)}

InitScan ==
  /\ cmd = "parseImageReferences" /\ pc = "scan" /\ err = "none"
  /\ content \in ScanContents
  /\ featuredImage = Undefined /\ basePath = Empty
  /\ imageRefs = <<>> /\ pathsToUpload = <<>> /\ idx = 0 /\ file = Empty
  /\ result = NoResult /\ statLog = <<>>
  /\ secretKey = NoKey
  /\ now = 0 /\ token = NoToken /\ requests = <<>> /\ inflight = {}
  /\ signed = <<>> /\ responses = <<>>
  /\ keyfile = NoFile /\ io = <<>> /\ password = Undefined /\ sealed = NotSealed
  /\ args = NoArgs /\ payload = EmptyPayload /\ errFields = <<>>
  /\ apiError = NoApiError /\ console = <<>>
  /\ ConfigLoaded /\ NothingParsed

\* parseImageReferences(content) is called
Scan_parseImageReferences ==
  /\ pc = "scan"
  /\ imageRefs' = parseImageReferences(content)
  /\ pc' = "done"
  /\ UNCHANGED <<cmd, err, content, featuredImage, basePath, pathsToUpload, idx, file,
                 result, statLog, secretKey, netVars, keyVars, cmdVars, console,
                 confVars, fmVars>>

NextScan == Scan_parseImageReferences

SpecScan == InitScan /\ [][NextScan]_vars

\* ======================================================================
\* Properties of parseImageReferences
\* ======================================================================

\* the pieces a scanned content was made of, from left to right
RECURSIVE PiecesOf(_)
PiecesOf(s) ==
  IF s = <<>> THEN <<>>
  ELSE LET p == CHOOSE q \in ScanPieces : StartsWith(s, q.text)
       IN <<p>> \o PiecesOf(SubSeq(s, Len(p.text) + 1, Len(s)))

\* the references expected of a list of pieces in one syntax
RefsOfKind(l, kind) ==
  LET keep == SelectSeq(l, LAMBDA p : p.kind = kind /\ ~p.remote)
  IN [i \in 1..Len(keep) |-> [original |-> keep[i].text, path |-> keep[i].path]]

\* C21: parseImageReferences returns one reference for every markdown image and every HTML img tag whose path is not an http:// or https:// URL, the markdown ones first, each with the matched text and the path, and nothing else; content without images gives the empty list.
C21_OneReferencePerLocalImage ==
  (cmd = "parseImageReferences" /\ pc = "done") =>
    LET l == PiecesOf(content)
    IN imageRefs = RefsOfKind(l, "md") \o RefsOfKind(l, "html")

C21_Witness ==
  /\ cmd = "parseImageReferences" /\ pc = "done"
  /\ content = Md(<<"r">>, RemoteR) \o Md(<<"a">>, PathX) \o Img("\"", <<"http://", "r">>)
  /\ imageRefs = <<[original |-> Md(<<"a">>, PathX), path |-> PathX]>>

\* ======================================================================
\* processImages on paths with a scheme
\* ======================================================================
SchemeContents ==
  { <<>>, Md(<<"s">>, OtherSchemeR), Md(<<"r">>, RemoteR),
    Md(<<"a">>, PathX) \o Img("'", OtherSchemeR) }
SchemeFeaturedImages == {Undefined, OtherSchemeR, RemoteR, <<"http://", "r">>, PathX}

InitSchemes ==
  /\ cmd = "processImages" /\ pc = "processImages" /\ err = "none"
  /\ content \in SchemeContents
  /\ featuredImage \in SchemeFeaturedImages
  /\ basePath = BasePath
  /\ imageRefs = <<>> /\ pathsToUpload = <<>> /\ idx = 0 /\ file = Empty
  /\ result = NoResult /\ statLog = <<>>
  /\ secretKey = <<"0a", "1b">>
  /\ now = 0 /\ token = NoToken /\ requests = <<>> /\ inflight = {}
  /\ signed = <<>> /\ responses = <<>>
  /\ keyfile = NoFile /\ io = <<>> /\ password = Undefined /\ sealed = NotSealed
  /\ args = NoArgs /\ payload = EmptyPayload /\ errFields = <<>>
  /\ apiError = NoApiError /\ console = <<>>
  /\ ConfigLoaded /\ NothingParsed

SpecSchemes == InitSchemes /\ [][NextImages]_vars

\* ======================================================================
\* Properties of isLocalPath
\* ======================================================================
NetworkSchemes == {"http://", "https://", "ftp://"}
HasScheme(path) == Len(path) > 0 /\ path[1] \in NetworkSchemes

\* C22: a path that begins with a network scheme, whichever it is, is treated as remote: it is never put in the upload set and never passed to file validation.
C22_SchemePathsNeverUploaded ==
  /\ \A i \in 1..Len(pathsToUpload) : ~HasScheme(pathsToUpload[i].path)
  /\ \A i \in 1..Len(statLog) : ~HasScheme(statLog[i].path)

\* ======================================================================
\* Properties of the featured image
\* ======================================================================
IsRemote(path) == StartsWith(path, <<"http://">>) \/ StartsWith(path, <<"https://">>)

Occurs(sub, s) ==
  \E i \in 1..(Len(s) - Len(sub) + 1) : SubSeq(s, i, i + Len(sub) - 1) = sub

\* C23: when processImages succeeds, featuredImageUrl is undefined if no featured image was given, the given value if it is an http(s) URL, and otherwise the URL returned by the one upload of that path, which is also the URL put in the content when the content mentions the path.
C23_FeaturedImageUrl ==
  (cmd = "processImages" /\ result.returned) =>
    IF featuredImage = Undefined THEN result.featuredImageUrl = Undefined
    ELSE IF IsRemote(featuredImage) THEN result.featuredImageUrl = featuredImage
    ELSE /\ Cardinality(UploadsOf(featuredImage)) = 1
         /\ \A i \in UploadsOf(featuredImage) :
              /\ result.featuredImageUrl = responses[i].url
              /\ ( /\ responses[i].url # Undefined
                   /\ \E k \in 1..Len(imageRefs) : imageRefs[k].path = featuredImage )
                 => Occurs(responses[i].url, result.content)

C23_Witness ==
  /\ cmd = "processImages" /\ result.returned
  /\ featuredImage = PathX
  /\ content = Md(<<"a">>, PathX) \o Md(<<"b">>, PathY)
  /\ Len(requests) = 2
  /\ result.featuredImageUrl = ServerUrl(BasePath \o <<"/">> \o PathX)
  /\ result.content = Md(<<"a">>, result.featuredImageUrl) \o Md(<<"b">>, ServerUrl(PathY))

\* ======================================================================
\* Config
\* ======================================================================
\* DEFAULT_CONFIG_PATH
ConfigPath == <<"~/.my2sats/", "config.json">>

\* a ConfigFile without any field
NoFields ==
  [apiUrl |-> JAbsent, keyfilePath |-> JAbsent, maxImageSize |-> JAbsent,
   allowedImageTypes |-> JAbsent]

\* validateConfigFile
validateConfigFile(data) ==
  IF data.t \notin {"object", "array"} THEN NoFields
  ELSE
    LET obj == IF data.t = "object" THEN data.o ELSE NoFields
    IN [apiUrl |-> IF obj.apiUrl.t = "string" THEN obj.apiUrl ELSE JAbsent,
        keyfilePath |-> IF obj.keyfilePath.t = "string" THEN obj.keyfilePath ELSE JAbsent,
        maxImageSize |->
          IF obj.maxImageSize.t = "number" /\ obj.maxImageSize.n > 0
          THEN obj.maxImageSize ELSE JAbsent,
        allowedImageTypes |->
          IF /\ obj.allowedImageTypes.t = "array"
             /\ \A i \in 1..Len(obj.allowedImageTypes.a) :
                  obj.allowedImageTypes.a[i].t = "string"
          THEN obj.allowedImageTypes ELSE JAbsent]

\* loadConfigFile: no file gives {}, a file that is not JSON a ConfigError
loadConfigFile(f) ==
  IF ~f.exists THEN [ok |-> TRUE, fileConfig |-> NoFields]
  ELSE IF f.doc.t = "invalid" THEN [ok |-> FALSE, fileConfig |-> NoFields]
  ELSE [ok |-> TRUE, fileConfig |-> validateConfigFile(f.doc)]

\* a ?? b on a value of the environment
OrElse(a, b) == IF a # Undefined THEN a ELSE b
\* the value of a field of the config file: a string, a number, an array of strings
FieldValue(j) ==
  IF j.t = "number" THEN j.n
  ELSE IF j.t = "array" THEN [i \in 1..Len(j.a) |-> j.a[i].s]
  ELSE j.s
\* a ?? b on a field of the config file
FieldOrElse(j, b) == IF j.t # "undefined" THEN FieldValue(j) ELSE b

\* variant: the config file is looked at before the environment
Resolve_FileFirst(e, fileConfig) ==
  [apiUrl |-> FieldOrElse(fileConfig.apiUrl, OrElse(e.API_URL, DEFAULTS.apiUrl)),
   keyfilePath |-> FieldOrElse(fileConfig.keyfilePath, OrElse(e.KEYFILE_PATH, DEFAULTS.keyfilePath)),
   maxImageSize |-> FieldOrElse(fileConfig.maxImageSize, DEFAULTS.maxImageSize),
   allowedImageTypes |-> FieldOrElse(fileConfig.allowedImageTypes, DEFAULTS.allowedImageTypes)]

\* the constructor of Config
Resolve(e, fileConfig) ==
  [apiUrl |-> OrElse(e.API_URL, FieldOrElse(fileConfig.apiUrl, DEFAULTS.apiUrl)),
   keyfilePath |-> OrElse(e.KEYFILE_PATH, FieldOrElse(fileConfig.keyfilePath, DEFAULTS.keyfilePath)),
   maxImageSize |-> FieldOrElse(fileConfig.maxImageSize, DEFAULTS.maxImageSize),
   allowedImageTypes |-> FieldOrElse(fileConfig.allowedImageTypes, DEFAULTS.allowedImageTypes)]

\* what the environment can hold
Envs ==
  [API_URL : {Undefined, <<"https://", "env">>, Empty},
   KEYFILE_PATH : {Undefined, <<"/", "env.key">>}]

\* the documents the config file can hold
ConfigObjects ==
  [apiUrl : {JAbsent, JStr(<<"https://", "file">>), JNum(5)},
   keyfilePath : {JAbsent, JStr(<<"/", "file.key">>), JNull},
   maxImageSize : {JAbsent, JNum(10), JNum(0), JNum(-1), JStr(<<"10">>)},
   allowedImageTypes : {JAbsent, JArr(<<JStr(<<"image/png">>)>>), JArr(<<>>),
                        JArr(<<JStr(<<"image/png">>), JNum(1)>>), JStr(<<"image/png">>)}]
ConfigFiles ==
  {NoConfigFile}
    \cup {[exists |-> TRUE, doc |-> d] :
            d \in {JInvalid, JNull, JNum(1), JArr(<<>>)}}
    \cup {[exists |-> TRUE, doc |-> JObj(o)] : o \in ConfigObjects}

\* the document createDefaultConfig writes
DefaultConfigDocument ==
  JObj([NoFields EXCEPT !.apiUrl = JStr(DEFAULTS.apiUrl),
                        !.keyfilePath = JStr(DEFAULTS.keyfilePath)])

\* variant: the file is written whatever is there
Config_createDefaultConfig_AlwaysWrites ==
  /\ cmd = "Config" /\ pc = "start"
  /\ configFile' = [exists |-> TRUE, doc |-> DefaultConfigDocument]
  /\ createdPath' = ConfigPath
  /\ pc' = "created" /\ err' = err
  /\ cmd' = "createDefaultConfig"
  /\ UNCHANGED <<imgVars, secretKey, netVars, keyVars, cmdVars, console,
                 env, overwrite, config, fmVars>>

\* Config.createDefaultConfig(undefined, overwrite)
Config_createDefaultConfig ==
  /\ cmd = "Config" /\ pc = "start"
  /\ IF ~overwrite /\ configFile.exists
     THEN /\ pc' = "failed" /\ err' = "ConfigError"
          /\ UNCHANGED <<configFile, createdPath>>
     ELSE /\ configFile' = [exists |-> TRUE, doc |-> DefaultConfigDocument]
          /\ createdPath' = ConfigPath
          /\ pc' = "created" /\ err' = err
  /\ cmd' = "createDefaultConfig"
  /\ UNCHANGED <<imgVars, secretKey, netVars, keyVars, cmdVars, console,
                 env, overwrite, config, fmVars>>

\* Config.load()
Config_load ==
  /\ cmd \in {"Config", "createDefaultConfig"} /\ pc \in {"start", "created"}
  /\ cmd' = "load"
  /\ LET loaded == loadConfigFile(configFile)
     IN IF loaded.ok
        THEN /\ config' = Resolve(env, loaded.fileConfig)
             /\ pc' = "loaded" /\ err' = err
        ELSE /\ config' = config
             /\ pc' = "failed" /\ err' = "ConfigError"
  /\ UNCHANGED <<imgVars, secretKey, netVars, keyVars, cmdVars, console,
                 env, configFile, overwrite, createdPath, fmVars>>

InitConfig ==
  /\ cmd = "Config" /\ pc = "start" /\ err = "none"
  /\ content = Empty /\ featuredImage = Undefined /\ basePath = Empty
  /\ imageRefs = <<>> /\ pathsToUpload = <<>> /\ idx = 0 /\ file = Empty
  /\ result = NoResult /\ statLog = <<>>
  /\ secretKey = NoKey
  /\ now = 0 /\ token = NoToken /\ requests = <<>> /\ inflight = {}
  /\ signed = <<>> /\ responses = <<>>
  /\ keyfile = NoFile /\ io = <<>> /\ password = Undefined /\ sealed = NotSealed
  /\ args = NoArgs /\ payload = EmptyPayload /\ errFields = <<>>
  /\ apiError = NoApiError /\ console = <<>>
  /\ env \in Envs /\ configFile \in ConfigFiles /\ overwrite \in BOOLEAN
  /\ createdPath = Undefined /\ config = NoConfig
  /\ NothingParsed

NextConfig == Config_load \/ Config_createDefaultConfig

SpecConfig == InitConfig /\ [][NextConfig]_vars

\* ======================================================================
\* Properties of Config
\* ======================================================================
\* the config file holds an object whose field f is of type t
FileHas(f, t) ==
  configFile.exists /\ configFile.doc.t = "object" /\ configFile.doc.o[f].t = t

\* C24: each setting is resolved by priority: apiUrl and keyfilePath are the values of API_URL and KEYFILE_PATH when set, else the string the config file gives, else the default; maxImageSize and allowedImageTypes are the positive number and the array of strings the config file gives, else the default; without a config file nothing comes from it.
C24_EnvThenFileThenDefault ==
  (cmd = "load" /\ pc = "loaded") =>
    /\ config.apiUrl =
         IF env.API_URL # Undefined THEN env.API_URL
         ELSE IF FileHas("apiUrl", "string") THEN configFile.doc.o.apiUrl.s
         ELSE <<"http://", "localhost:3000">>
    /\ config.keyfilePath =
         IF env.KEYFILE_PATH # Undefined THEN env.KEYFILE_PATH
         ELSE IF FileHas("keyfilePath", "string") THEN configFile.doc.o.keyfilePath.s
         ELSE <<"~/.my2sats/", "nostr.key">>
    /\ config.maxImageSize =
         IF FileHas("maxImageSize", "number") /\ configFile.doc.o.maxImageSize.n > 0
         THEN configFile.doc.o.maxImageSize.n
         ELSE 5 * 1024 * 1024
    /\ config.allowedImageTypes =
         IF /\ FileHas("allowedImageTypes", "array")
            /\ \A i \in 1..Len(configFile.doc.o.allowedImageTypes.a) :
                 configFile.doc.o.allowedImageTypes.a[i].t = "string"
         THEN [i \in 1..Len(configFile.doc.o.allowedImageTypes.a) |->
                 configFile.doc.o.allowedImageTypes.a[i].s]
         ELSE <<<<"image/jpeg">>, <<"image/png">>, <<"image/webp">>, <<"image/gif">>>>
    /\ (~configFile.exists /\ env = NoEnv) => config = DEFAULTS

\* API_URL set, the file gives apiUrl, keyfilePath and maxImageSize: the
\* environment wins for apiUrl, the file for the two others
C24_Witness ==
  /\ cmd = "load" /\ pc = "loaded" /\ createdPath = Undefined
  /\ env = [API_URL |-> <<"https://", "env">>, KEYFILE_PATH |-> Undefined]
  /\ FileHas("apiUrl", "string") /\ FileHas("keyfilePath", "string")
  /\ FileHas("allowedImageTypes", "string")
  /\ config = [apiUrl |-> <<"https://", "env">>, keyfilePath |-> <<"/", "file.key">>,
               maxImageSize |-> 10, allowedImageTypes |-> DEFAULTS.allowedImageTypes]

\* a call of Config.createDefaultConfig
CreateDefaultConfigStep == cmd = "Config" /\ cmd' = "createDefaultConfig"

\* C25: createDefaultConfig fails with ConfigError and leaves the file as it is when a file exists at the path and overwrite is false; otherwise the file holds the default apiUrl and keyfilePath afterwards and the path is returned.
C25_CreateDefaultConfig ==
  [][CreateDefaultConfigStep =>
       IF configFile.exists /\ ~overwrite
       THEN /\ pc' = "failed" /\ err' = "ConfigError"
            /\ configFile' = configFile
            /\ createdPath' = Undefined
       ELSE /\ pc' = "created" /\ err' = "none"
            /\ configFile'.exists
            /\ configFile'.doc.t = "object"
            /\ configFile'.doc.o.apiUrl = JStr(<<"http://", "localhost:3000">>)
            /\ configFile'.doc.o.keyfilePath = JStr(<<"~/.my2sats/", "nostr.key">>)
            /\ createdPath' = ConfigPath]_vars

\* the file is there with settings of its own and overwrite is false: the call has failed and the settings are still there
C25_Witness ==
  /\ cmd = "createDefaultConfig" /\ pc = "failed" /\ err = "ConfigError"
  /\ ~overwrite
  /\ FileHas("apiUrl", "string") /\ configFile.doc.o.apiUrl.s = <<"https://", "file">>
  /\ createdPath = Undefined

\* ======================================================================
\* parseFrontmatter
\* ======================================================================
MaxLines == 5

\* String.prototype.split on a one-token separator
RECURSIVE Split(_, _)
Split(s, sep) ==
  LET i == IndexOf(s, <<sep>>)
  IN IF i = 0 THEN <<s>>
     ELSE <<SubSeq(s, 1, i - 1)>> \o Split(SubSeq(s, i + 1, Len(s)), sep)

\* .replace(/^["']|["']$/g, "")
StripQuotes(s) ==
  LET a == IF s # <<>> /\ Head(s) \in Quotes THEN Tail(s) ELSE s
  IN IF a # <<>> /\ a[Len(a)] \in Quotes THEN SubSeq(a, 1, Len(a) - 1) ELSE a

\* the [...] of a value: split at the commas, trimmed, quotes off, empty items dropped
ArrayItems(value) ==
  LET items == Split(SubSeq(value, 2, Len(value) - 1), ",")
      clean == [i \in 1..Len(items) |-> StripQuotes(Trim(items[i]))]
  IN SelectSeq(clean, LAMBDA item : item # <<>>)

\* validKeys of setFrontmatterField
ValidKeys == {"slug", "title", "author", "excerpt", "featured_image", "tags"}

\* setFrontmatterField.  A front-matter object is the set of its properties:
\* key, the string value or the array items
setFrontmatterField(frontmatter, key, isArray, value) ==
  IF Len(key) = 1 /\ key[1] \in ValidKeys
  THEN {p \in frontmatter : p.key # key[1]}
         \cup {[key |-> key[1], isArray |-> isArray,
                value |-> IF isArray THEN <<>> ELSE value,
                items |-> IF isArray THEN value ELSE <<>>]}
  ELSE frontmatter

\* the loop over the lines of the front-matter block
RECURSIVE ParseLines(_, _)
ParseLines(lines, frontmatter) ==
  IF lines = <<>> THEN frontmatter
  ELSE
    LET line == Head(lines)
        colonIndex == IndexOf(line, <<":">>)
        key == Trim(SubSeq(line, 1, colonIndex - 1))
        value == Trim(SubSeq(line, colonIndex + 1, Len(line)))
    IN ParseLines(Tail(lines),
         IF colonIndex = 0 THEN frontmatter
         ELSE IF StartsWith(value, <<"[">>) /\ value[Len(value)] = "]"
         THEN setFrontmatterField(frontmatter, key, TRUE, ArrayItems(value))
         ELSE setFrontmatterField(frontmatter, key, FALSE, StripQuotes(value)))

\* where /^---\n([\s\S]*?)\n---\n([\s\S]*)$/ finds the closing \n---\n: the
\* first place after the opening ---\n; 0 when the text does not match
FrontmatterMatch(s) ==
  IF ~StartsWith(s, <<"---", "\n">>) THEN 0
  ELSE
    LET hits == {j \in 3..(Len(s) - 2) : SubSeq(s, j, j + 2) = <<"\n", "---", "\n">>}
    IN IF hits = {} THEN 0 ELSE CHOOSE j \in hits : \A k \in hits : j <= k

\* parseFrontmatter
parseFrontmatter(s) ==
  LET j == FrontmatterMatch(s)
      frontmatterStr == SubSeq(s, 3, j - 1)
      body == SubSeq(s, j + 3, Len(s))
  IN IF j = 0 \/ frontmatterStr = <<>>
     THEN [returned |-> TRUE, frontmatter |-> {}, content |-> s]
     ELSE [returned |-> TRUE,
           frontmatter |-> ParseLines(Split(frontmatterStr, "\n"), {}),
           content |-> Trim(body)]

\* the lines a markdown file is made of
FileLines ==
  { <<"---">>,
    <<>>,
    <<"slug", ":", " ", "s">>,
    <<"unknown_field", ":", " ", "v">>,
    <<"tags", ":", " ", "[", "\"", "a", "\"", ",", " ", "b", ",", "]">>,
    <<" ", "title", " ", ":", "'", "T", "'">>,
    <<"text", " ">> }

RECURSIVE LineListsUpTo(_)
LineListsUpTo(n) ==
  IF n = 0 THEN {<<>>}
  ELSE LET prev == LineListsUpTo(n - 1)
       IN prev \cup {Append(l, line) : l \in prev, line \in FileLines}

\* lines.join("\n")
RECURSIVE Join(_)
Join(lines) ==
  IF lines = <<>> THEN <<>>
  ELSE IF Len(lines) = 1 THEN lines[1]
  ELSE lines[1] \o <<"\n">> \o Join(Tail(lines))

Markdowns == {Join(l) : l \in LineListsUpTo(MaxLines)}

InitFrontmatter ==
  /\ cmd = "parseFrontmatter" /\ pc = "parse" /\ err = "none"
  /\ content = Empty /\ featuredImage = Undefined /\ basePath = Empty
  /\ imageRefs = <<>> /\ pathsToUpload = <<>> /\ idx = 0 /\ file = Empty
  /\ result = NoResult /\ statLog = <<>>
  /\ secretKey = NoKey
  /\ now = 0 /\ token = NoToken /\ requests = <<>> /\ inflight = {}
  /\ signed = <<>> /\ responses = <<>>
  /\ keyfile = NoFile /\ io = <<>> /\ password = Undefined /\ sealed = NotSealed
  /\ args = NoArgs /\ payload = EmptyPayload /\ errFields = <<>>
  /\ apiError = NoApiError /\ console = <<>>
  /\ ConfigLoaded
  /\ markdown \in Markdowns /\ parseResult = NoParse

\* parseFrontmatter(markdown) is called
Parse_parseFrontmatter ==
  /\ cmd = "parseFrontmatter" /\ pc = "parse"
  /\ parseResult' = parseFrontmatter(markdown)
  /\ pc' = "done"
  /\ UNCHANGED <<cmd, err, imgVars, secretKey, netVars, keyVars, cmdVars, console,
                 confVars, markdown>>

NextFrontmatter == Parse_parseFrontmatter

SpecFrontmatter == InitFrontmatter /\ [][NextFrontmatter]_vars

\* ======================================================================
\* Properties of parseFrontmatter
\* ======================================================================
\* the property a line of the file stands for, if it is a key: value line
LineProperty(line) ==
  IF line = <<"slug", ":", " ", "s">>
  THEN {[key |-> "slug", isArray |-> FALSE, value |-> <<"s">>, items |-> <<>>]}
  ELSE IF line = <<"tags", ":", " ", "[", "\"", "a", "\"", ",", " ", "b", ",", "]">>
  THEN {[key |-> "tags", isArray |-> TRUE, value |-> <<>>, items |-> <<<<"a">>, <<"b">>>>]}
  ELSE IF line = <<" ", "title", " ", ":", "'", "T", "'">>
  THEN {[key |-> "title", isArray |-> FALSE, value |-> <<"T">>, items |-> <<>>]}
  ELSE {}

\* the lines of the text
MarkdownLines == Split(markdown, "\n")
\* the --- lines after the first line
Closings == {k \in 2..Len(MarkdownLines) : MarkdownLines[k] = <<"---">>}
Closing == CHOOSE k \in Closings : \A j \in Closings : k <= j
\* there is no delimiter block: the first line is not ---, or no --- line follows
BlockAbsent == MarkdownLines[1] # <<"---">> \/ Closings = {}
\* nothing stands between the two delimiters
BlockEmpty == ~BlockAbsent /\ Closing = 2
\* the block holds a line that is not blank and a line follows the closing ---
BlockFilled ==
  /\ ~BlockAbsent /\ Closing < Len(MarkdownLines)
  /\ \E k \in 2..(Closing - 1) : MarkdownLines[k] # <<>>

\* the fallback: no front-matter, the whole input as content
FellBack == parseResult.frontmatter = {} /\ parseResult.content = markdown

\* C26: parseFrontmatter returns an empty front-matter and the whole input when the delimiter block is absent or empty, and otherwise the recognised keys of the block and the trimmed body.
C26_FallbackOrRecognisedKeys ==
  (cmd = "parseFrontmatter" /\ pc = "done") =>
    /\ (BlockAbsent \/ BlockEmpty) => FellBack
    /\ BlockFilled =>
         /\ parseResult.frontmatter =
              UNION {LineProperty(MarkdownLines[k]) : k \in 2..(Closing - 1)}
         /\ parseResult.content =
              Trim(Join(SubSeq(MarkdownLines, Closing + 1, Len(MarkdownLines))))

\* the part of the claim that leaves the empty block aside
C26_AbsentOrFilled ==
  (cmd = "parseFrontmatter" /\ pc = "done") =>
    /\ BlockAbsent => FellBack
    /\ BlockFilled =>
         /\ parseResult.frontmatter =
              UNION {LineProperty(MarkdownLines[k]) : k \in 2..(Closing - 1)}
         /\ parseResult.content =
              Trim(Join(SubSeq(MarkdownLines, Closing + 1, Len(MarkdownLines))))

\* ======================================================================
\* Properties of the store-key command
\* ======================================================================
\* the last entry of a log
Last(log) == log[Len(log)]

\* C27: store-key changes the keyfile in one step only, its last: the key input has been decoded, a non-empty password has been entered and the confirmation was equal to it, and the file then holds the key encrypted under that password; no other step of the command touches the file, so a run that fails leaves it as it was.
C27_WriteIsLastStep ==
  [][((cmd = "store-key" \/ cmd' = "store-key") /\ keyfile' # keyfile) =>
       /\ pc = "storeKey_write" /\ pc' = "done" /\ err' = "none"
       /\ secretKey \in {<<a, b>> : a \in HexLowerRuns, b \in HexLowerRuns}
       /\ Truthy(password) /\ password \in Passwords
       /\ Last(io) = "confirm-match"
       /\ keyfile' = [exists |-> TRUE, text |-> Encrypt(secretKey, password)]]_vars

\* a keyfile was there; the key was asked for, the password entered and confirmed, and the file now holds the new key
C27_Witness ==
  /\ cmd = "store-key" /\ pc = "done"
  /\ io = <<"prompt-key", "prompt-password", "confirm-match", "encrypt", "write">>
  /\ secretKey = <<"1b", "1b">>
  /\ keyfile = [exists |-> TRUE, text |-> Encrypt(<<"1b", "1b">>, password)]

\* a run that stopped at a confirmation that differs: the keyfile is the one that was there
C27_FailedWitness ==
  /\ cmd = "store-key" /\ pc = "failed" /\ err = "Error"
  /\ io # <<>> /\ Last(io) = "confirm-mismatch"
  /\ keyfile = [exists |-> TRUE, text |-> <<"nsec1", "vl02">>]

\* ======================================================================
\* Properties of the payloads sent
\* ======================================================================
\* C28: the payload of every create or update request sent holds no local image path: its featured_image is absent or an http(s) URL and its content holds no reference to a local image.
C28_NoLocalPathSent ==
  \A i \in PostRequests :
    LET sent == requests[i].body.payload
    IN /\ sent.featured_image = Undefined \/ IsRemote(sent.featured_image)
       /\ sent.content # Undefined => parseImageReferences(sent.content) = <<>>

\* update s --content "![a](x)" without a file: the PUT carries the option's text as it was given
C28_OptionContentSentAsGiven ==
  /\ cmd = "update" /\ ~Truthy(args.file)
  /\ args.opts.content = Md(<<"a">>, PathX)
  /\ \E i \in UpdateRequests : requests[i].body.payload.content = Md(<<"a">>, PathX)
  /\ \A i \in 1..Len(requests) : requests[i].body.kind # "form"

\* ======================================================================
\* Properties of the substitution step
\* ======================================================================
\* the upload of a path was answered without a location
NoUrl(path) == \E i \in 1..Len(pathsToUpload) :
                 pathsToUpload[i].path = path /\ ~Truthy(pathsToUpload[i].url)

\* C29: the substitution tolerates a path without an uploaded URL: processImages still returns, the spans of such a path stand in the returned content as they stood in the input, and the URL of every other referenced path is in the returned content; with no URL at all the content is returned as it was.
C29_MissingUrlTolerated ==
  /\ (cmd = "processImages" /\ pc = "failed") =>
       \/ statLog # <<>> /\ Invalid(statLog[Len(statLog)].st)
       \/ responses # <<>> /\ FailedUpload(responses[Len(responses)])
  /\ (cmd = "processImages" /\ result.returned) =>
       /\ \A k \in 1..Len(imageRefs) :
            IF NoUrl(imageRefs[k].path)
            THEN Occurs(imageRefs[k].original, result.content)
            ELSE Occurs(MapGet(pathsToUpload, imageRefs[k].path), result.content)
       /\ (\A k \in 1..Len(imageRefs) : NoUrl(imageRefs[k].path)) => result.content = content

\* two images, the upload of the first answered {} and the second with a url: the first span is as it was, the second names the url
C29_Witness ==
  /\ cmd = "processImages" /\ result.returned
  /\ content = Md(<<"a">>, PathX) \o Md(<<"b">>, PathY)
  /\ Len(responses) = 2 /\ responses[1].url = Undefined /\ responses[2].url # Undefined
  /\ result.content = Md(<<"a">>, PathX) \o Md(<<"b">>, ServerUrl(PathY))

\* ======================================================================
\* Properties of the upload loop
\* ======================================================================
\* the upload of the i-th unique path was sent and answered with success
Uploaded(i) ==
  /\ i <= Len(requests) /\ i <= Len(responses)
  /\ requests[i].body.kind = "form" /\ requests[i].method = "POST"
  /\ requests[i].body.file = Resolved(DiscoveryOrder[i])
  /\ ~FailedUpload(responses[i])

\* C30: each path is validated and uploaded before the next one is looked at: the validation of a path is never ahead of the uploads by more than that path, and when processImages fails at the k-th unique path, on its validation or on its upload, the first k-1 paths have been uploaded with success, no later path has been validated or sent, and no request takes an upload back.
C30_InterleavedPerPath ==
  cmd = "processImages" =>
    /\ Len(requests) \in {Len(statLog) - 1, Len(statLog)}
    /\ \A i \in 1..Len(requests) : requests[i].body.kind = "form" /\ requests[i].method = "POST"
    /\ pc = "failed" =>
         LET k == Len(statLog)
         IN /\ k >= 1 /\ k <= Len(DiscoveryOrder)
            /\ \A i \in 1..k : statLog[i].path = DiscoveryOrder[i]
            /\ \A i \in 1..(k - 1) : Uploaded(i)
            /\ \/ Invalid(statLog[k].st) /\ Len(requests) = k - 1
               \/ /\ ~Invalid(statLog[k].st) /\ Len(requests) = k
                  /\ requests[k].body.file = Resolved(DiscoveryOrder[k])
                  /\ FailedUpload(responses[k])
            /\ \A j \in (k + 1)..Len(DiscoveryOrder) : UploadsOf(DiscoveryOrder[j]) = {}

\* three unique paths, the second fails validation: the first was uploaded, the third never looked at
C30_Witness ==
  /\ cmd = "processImages" /\ pc = "failed" /\ err = "ImageValidationError"
  /\ Len(DiscoveryOrder) = 3
  /\ Len(statLog) = 2 /\ Len(requests) = 1
  /\ Uploaded(1)
  /\ UploadsOf(DiscoveryOrder[3]) = {}

====
